------------------------ MODULE BusinessServiceProofs ------------------------
(***************************************************************************)
(* Theorems about BusinessService for any number of tickets, tasks,        *)
(* approvals and requests, any pool, batch and attempt limit.              *)
(***************************************************************************)
EXTENDS BusinessService, TLAPS

-----------------------------------------------------------------------------
(* The status graph and single writes.                                     *)

\* transitionTo never leaves RESOLVED or a row that does not exist, and always
\* ends in a status of the enumeration.
LEMMA TransitionFacts ==
    ASSUME NEW from, NEW to, CanTransition(from, to)
    PROVE  /\ from \in TicketStatuses /\ to \in TicketStatuses
           /\ from # "RESOLVED" /\ from # "absent" /\ to # "absent"
BY DEF CanTransition, Transitions, TicketStatuses

\* A ticket that goes back to AI_QUEUED was waiting; AI_QUEUED never follows itself.
LEMMA QueueFacts ==
    ASSUME NEW from, CanTransition(from, "AI_QUEUED")
    PROVE  from \in {"NEW", "AI_FAILED", "WAITING_CUSTOMER"}
BY DEF CanTransition, Transitions

\* Writing tickets makes every earlier snapshot of them older, never wrong.
LEMMA MoveKeepsPast ==
    ASSUME TicketTypeOK, NEW T \in SUBSET Tickets, NEW next, MoveTickets(T, next),
           NEW snap \in TicketSnapshots, IsPast(snap)
    PROVE  IsPast(snap)'
BY DEF TicketTypeOK, MoveTickets, TicketSnapshots, IsPast

\* A fresh snapshot is of the current version.
LEMMA FreshSnapshot ==
    ASSUME TicketTypeOK, NEW t \in Tickets
    PROVE  TicketSnapshot(t) \in TicketSnapshots /\ IsPast(TicketSnapshot(t))
BY DEF TicketTypeOK, TicketSnapshot, TicketSnapshots, IsPast

-----------------------------------------------------------------------------
(* Type correctness of each step.                                          *)

\* Setting one stage keeps attemptStage a table of stages.
LEMMA SetStageType ==
    ASSUME attemptStage \in [Tasks -> [Attempts -> Stages]],
           NEW k \in Tasks, NEW n, NEW stage \in Stages, SetStage(k, n, stage)
    PROVE  attemptStage' \in [Tasks -> [Attempts -> Stages]]
BY DEF SetStage

\* Moving tickets to a status of the enumeration keeps the ticket table typed.
LEMMA MoveTicketsType ==
    ASSUME TicketTypeOK, NEW T, NEW next \in TicketStatuses, MoveTickets(T, next)
    PROVE  TicketTypeOK'
BY DEF TicketTypeOK, MoveTickets

\* So does a checked update.
LEMMA UpdateTicketType ==
    ASSUME TicketTypeOK, NEW snap, NEW next, UpdateTicket(snap, next)
    PROVE  TicketTypeOK'
BY TransitionFacts, MoveTicketsType DEF UpdateTicket

\* An apply transaction reads a well-formed snapshot: its task is RUNNING, so it
\* refers to a ticket.
LEMMA BeginApplyType ==
    ASSUME TypeOK, RowsAndLocksAgree, NEW k \in Tasks, NEW n \in Attempts,
           NEW answer \in Answers, BeginApply(k, n, answer)
    PROVE  TypeOK'
<1>1. taskTicket[k] \in Tickets
  BY DEF BeginApply, TaskAcceptsResult, RowsAndLocksAgree, TaskRowsAgree, ApprovalRowsAgree
<1>2. TicketSnapshot(taskTicket[k]) \in TicketSnapshots
  BY <1>1, FreshSnapshot DEF TypeOK
<1>3. OpenTypes(taskTicket[k]) \in SUBSET (ApprovalTypes \cup {"none"})
  BY DEF OpenTypes, TypeOK, ApprovalTypeOK
<1>4. answer \in Recommendations
  BY AnswersAssumption
<1>5. [snap |-> TicketSnapshot(taskTicket[k]), open |-> OpenTypes(taskTicket[k]),
       attempt |-> n, answer |-> answer] \in ApplyTxns
  BY <1>2, <1>3, <1>4 DEF ApplyTxns
<1>6. applyTxn' \in [Tasks -> ApplyTxns \cup {NoTxn}]
  BY <1>5 DEF BeginApply, TypeOK
<1>7. attemptStage' \in [Tasks -> [Attempts -> Stages]]
  BY SetStageType DEF BeginApply, TypeOK, Stages
<1>. QED
  BY <1>6, <1>7 DEF BeginApply, TypeOK, TicketTypeOK, TaskTypeOK, ApprovalTypeOK,
     ticketVars, taskVars, approvalVars

\* The transaction of an approval that may be decided refers to a ticket.
LEMMA BeginDecisionType ==
    ASSUME TypeOK, RowsAndLocksAgree, NEW a \in Approvals, NEW decision \in Decisions,
           BeginDecision(a, decision)
    PROVE  TypeOK'
<1>1. approvalTicket[a] \in Tickets
  BY DEF BeginDecision, MayDecide, OpenStatuses, RowsAndLocksAgree, TaskRowsAgree, ApprovalRowsAgree
<1>2. TicketSnapshot(approvalTicket[a]) \in TicketSnapshots
  BY <1>1, FreshSnapshot DEF TypeOK
<1>3. [snap |-> TicketSnapshot(approvalTicket[a]), decision |-> decision] \in DecisionTxns
  BY <1>2 DEF DecisionTxns
<1>4. decisionTxn' \in [Approvals -> DecisionTxns \cup {NoTxn}]
  BY <1>3 DEF BeginDecision, TypeOK
<1>5. couponsIssued' \in SUBSET Approvals
  BY DEF BeginDecision, TypeOK, ApprovalTypeOK
<1>. QED
  BY <1>4, <1>5 DEF BeginDecision, TypeOK, TicketTypeOK, TaskTypeOK, ApprovalTypeOK,
     ticketVars, taskVars

\* The two endings of an apply transaction that write rows.
LEMMA CommitApplyType ==
    ASSUME TypeOK, RowsAndLocksAgree, NEW k \in Tasks,
           CommitStaleResult(k) \/ CommitResult(k)
    PROVE  TypeOK'
<1>1. TicketTypeOK'
  <2>1. CASE CommitStaleResult(k)
    BY <2>1, MoveTicketsType
    DEF CommitStaleResult, TypeOK, TicketTypeOK, ticketVars, TicketStatuses
  <2>2. CASE CommitResult(k)
    BY <2>2, UpdateTicketType DEF CommitResult, TypeOK
  <2>. QED  BY <2>1, <2>2
<1>2. TaskTypeOK'
  BY DEF CommitStaleResult, CommitResult, SetTaskStatus, TypeOK, TaskTypeOK, TaskStatuses,
     TerminalStatuses
<1>3. ApprovalTypeOK'
  <2>1. CASE UNCHANGED approvalVars
    BY <2>1 DEF approvalVars, TypeOK, ApprovalTypeOK
  <2>2. ASSUME NEW a \in Approvals,
               NEW type \in WantedApprovals(applyTxn[k].answer, applyTxn[k].open),
               InsertApproval(a, applyTxn[k].snap.ticket, type)
        PROVE  ApprovalTypeOK'
    <3>1. applyTxn[k].snap.ticket \in Tickets \cup {NoTicket}
      BY DEF CommitResult, CommitStaleResult, RowsAndLocksAgree, TaskRowsAgree, ApprovalRowsAgree, TypeOK, TaskTypeOK
    <3>2. type \in ApprovalTypes
      BY <2>2 DEF WantedApprovals, ApprovalTypes
    <3>. QED
      BY <2>2, <3>1, <3>2 DEF InsertApproval, TypeOK, ApprovalTypeOK, ApprovalStatuses, OpenStatuses
  <2>. QED
    BY <2>1, <2>2 DEF CommitStaleResult, CommitResult
<1>4. EndApply(k, "none")
  BY DEF CommitStaleResult, CommitResult
<1>5. attemptStage' \in [Tasks -> [Attempts -> Stages]]
  BY <1>4, SetStageType DEF EndApply, TypeOK, Stages
<1>6. /\ applyTxn' \in [Tasks -> ApplyTxns \cup {NoTxn}]
      /\ UNCHANGED <<decisionTxn, requeueTxn>>
  BY <1>4 DEF EndApply, TypeOK
<1>. QED
  BY <1>1, <1>2, <1>3, <1>5, <1>6 DEF TypeOK

\* Retrying or failing a set of tasks writes statuses of the enumerations.
LEMMA RetryOrFailType ==
    ASSUME TypeOK, NEW K, NEW retryable, RetryOrFail(K, retryable)
    PROVE  TicketTypeOK' /\ TaskTypeOK'
<1>1. TicketTypeOK'
  BY MoveTicketsType DEF RetryOrFail, TypeOK, TicketStatuses
<1>2. TaskTypeOK'
  BY DEF RetryOrFail, TypeOK, TaskTypeOK, TaskStatuses, LiveStatuses, TerminalStatuses
<1>. QED  BY <1>1, <1>2

\* A new task row is well formed.
LEMMA InsertTaskType ==
    ASSUME TaskTypeOK, NEW k \in Tasks, NEW t \in Tickets, NEW v \in Nat, InsertTask(k, t, v)
    PROVE  TaskTypeOK'
BY DEF InsertTask, TaskTypeOK, TaskStatuses, LiveStatuses

\* Steps of customers.
LEMMA CustomerType ==
    ASSUME TypeOK, RowsAndLocksAgree, CustomerStep
    PROVE  TypeOK'
<1>1. ASSUME NEW t \in Tickets, NEW k \in Tasks, CreateTicket(t, k)  PROVE TypeOK'
  <2>1. TicketTypeOK'
    BY <1>1 DEF CreateTicket, TypeOK, TicketTypeOK, TicketStatuses
  <2>2. TaskTypeOK'
    BY <1>1, InsertTaskType DEF CreateTicket, TypeOK
  <2>. QED
    BY <1>1, <2>1, <2>2 DEF CreateTicket, TypeOK, ApprovalTypeOK, approvalVars, threadVars
<1>2. ASSUME NEW r \in Requests, NEW t \in Tickets, BeginRequeue(r, t)  PROVE TypeOK'
  <2>1. TicketSnapshot(t) \in TicketSnapshots
    BY FreshSnapshot DEF TypeOK
  <2>2. requeueTxn' \in [Requests -> TicketSnapshots \cup {NoTxn}]
    BY <1>2, <2>1 DEF BeginRequeue, TypeOK
  <2>. QED
    BY <1>2, <2>2 DEF BeginRequeue, TypeOK, TicketTypeOK, TaskTypeOK, ApprovalTypeOK,
       ticketVars, taskVars, approvalVars
<1>3. ASSUME NEW r \in Requests, NEW k \in Tasks, CommitRequeue(r, k)  PROVE TypeOK'
  <2>1. requeueTxn[r] \in TicketSnapshots
    BY <1>3 DEF CommitRequeue, TypeOK
  <2>2. requeueTxn[r].ticket \in Tickets /\ requeueTxn[r].version + 1 \in Nat
    BY <2>1 DEF TicketSnapshots
  <2>3. TicketTypeOK' /\ TaskTypeOK'
    BY <1>3, <2>2, UpdateTicketType, InsertTaskType DEF CommitRequeue, TypeOK
  <2>. QED
    BY <1>3, <2>3 DEF CommitRequeue, TypeOK, ApprovalTypeOK, approvalVars
<1>4. ASSUME NEW r \in Requests, AbortRequeue(r)  PROVE TypeOK'
  BY <1>4 DEF AbortRequeue, TypeOK, TicketTypeOK, TaskTypeOK, ApprovalTypeOK,
     ticketVars, taskVars, approvalVars
<1>. QED
  BY <1>1, <1>2, <1>3, <1>4 DEF CustomerStep

\* Steps of attempts and of the dispatcher.
LEMMA WorkerType ==
    ASSUME TypeOK, RowsAndLocksAgree, WorkerStep
    PROVE  TypeOK'
<1>1. ASSUME NEW k \in Tasks, Claim(k)  PROVE TypeOK'
  <2>1. TaskTypeOK'
    BY <1>1 DEF Claim, StartTask, TypeOK, TaskTypeOK, TaskStatuses, LiveStatuses
  <2>2. attemptStage' \in [Tasks -> [Attempts -> Stages]]
    BY <1>1, SetStageType DEF Claim, TypeOK, Stages
  <2>. QED
    BY <1>1, <2>1, <2>2 DEF Claim, TypeOK, TicketTypeOK, ApprovalTypeOK, ticketVars, approvalVars
<1>2. ASSUME NEW k \in Tasks, ApplyEnds(k)  PROVE TypeOK'
  <2>1. ASSUME NEW stage \in Stages, EndApply(k, stage),
               UNCHANGED <<ticketVars, taskVars, approvalVars>>
        PROVE  TypeOK'
    <3>1. attemptStage' \in [Tasks -> [Attempts -> Stages]]
      BY <2>1, SetStageType DEF EndApply, TypeOK
    <3>. QED
      BY <2>1, <3>1 DEF EndApply, TypeOK, TicketTypeOK, TaskTypeOK, ApprovalTypeOK,
         ticketVars, taskVars, approvalVars
  <2>. QED
    BY <1>2, <2>1, CommitApplyType DEF ApplyEnds, RollbackApply, Stages
<1>3. ASSUME NEW k \in Tasks, NEW n \in Attempts, NEW stage \in Stages,
             SetStage(k, n, stage), applyTxn' \in {applyTxn, [applyTxn EXCEPT ![k] = NoTxn]},
             UNCHANGED <<ticketVars, taskVars, approvalVars, decisionTxn, requeueTxn>>
      PROVE  TypeOK'
  <2>1. attemptStage' \in [Tasks -> [Attempts -> Stages]]
    BY <1>3, SetStageType DEF TypeOK
  <2>2. applyTxn' \in [Tasks -> ApplyTxns \cup {NoTxn}]
    BY <1>3 DEF TypeOK
  <2>. QED
    BY <1>3, <2>1, <2>2 DEF TypeOK, TicketTypeOK, TaskTypeOK, ApprovalTypeOK, ticketVars, taskVars, approvalVars
<1>4. ASSUME NEW k \in Tasks, NEW n \in Attempts,
             Submit(k, n) \/ RejectSubmission(k, n) \/ AnalysisFails(k, n)
             \/ RefuseLateResult(k, n) \/ LoseAttempt(k, n)
      PROVE  TypeOK'
  BY <1>3, <1>4 DEF Submit, RejectSubmission, AnalysisFails, RefuseLateResult, LoseAttempt, Stages
<1>5. ASSUME NEW k \in Tasks, NEW n \in Attempts, RecordFailure(k, n)  PROVE TypeOK'
  <2>1. TicketTypeOK' /\ TaskTypeOK'
    <3>1. CASE taskStatus[k] = "RUNNING"
      BY <1>5, <3>1, RetryOrFailType DEF RecordFailure
    <3>2. CASE taskStatus[k] # "RUNNING"
      BY <1>5, <3>2 DEF RecordFailure, TypeOK, TicketTypeOK, TaskTypeOK, ticketVars, taskVars
    <3>. QED  BY <3>1, <3>2
  <2>2. attemptStage' \in [Tasks -> [Attempts -> Stages]]
    BY <1>5, SetStageType DEF RecordFailure, TypeOK, Stages
  <2>. QED
    BY <1>5, <2>1, <2>2 DEF RecordFailure, TypeOK, ApprovalTypeOK, approvalVars
<1>6. ASSUME NEW K \in SUBSET Tasks, RecoverExpiredLeases(K)  PROVE TypeOK'
  BY <1>6, RetryOrFailType DEF RecoverExpiredLeases, TypeOK, ApprovalTypeOK, approvalVars, threadVars
<1>. QED
  BY <1>1, <1>2, <1>4, <1>5, <1>6, BeginApplyType DEF WorkerStep, AttemptEnds

\* Steps of agents and supervisors.
LEMMA ApprovalType ==
    ASSUME TypeOK, RowsAndLocksAgree, ApprovalStep
    PROVE  TypeOK'
<1>1. ASSUME NEW a \in Approvals, CommitDecision(a)  PROVE TypeOK'
  <2>1. TicketTypeOK'
    BY <1>1, UpdateTicketType DEF CommitDecision, TypeOK
  <2>2. ApprovalTypeOK'
    BY <1>1 DEF CommitDecision, DecideApproval, DecidedStatus, ExecutionOf, TypeOK,
       ApprovalTypeOK, ApprovalStatuses, OpenStatuses
  <2>. QED
    BY <1>1, <2>1, <2>2 DEF CommitDecision, TypeOK, TaskTypeOK, taskVars
<1>2. ASSUME NEW a \in Approvals, AbortDecision(a)  PROVE TypeOK'
  BY <1>2 DEF AbortDecision, TypeOK, TicketTypeOK, TaskTypeOK, ApprovalTypeOK,
     ticketVars, taskVars, approvalVars
<1>3. ASSUME NEW a \in Approvals, AssignSupervisor(a)  PROVE TypeOK'
  BY <1>3 DEF AssignSupervisor, DecideApproval, TypeOK, TicketTypeOK, TaskTypeOK,
     ApprovalTypeOK, ApprovalStatuses, OpenStatuses, ticketVars, taskVars, threadVars
<1>. QED
  BY <1>1, <1>2, <1>3, BeginDecisionType DEF ApprovalStep

\* Every step keeps the types, given that rows and locks agree.
LEMMA StepType ==
    ASSUME TypeOK, RowsAndLocksAgree, [Next]_vars
    PROVE  TypeOK'
<1>1. CASE UNCHANGED vars
  BY <1>1 DEF vars, threadVars, ticketVars, taskVars, approvalVars, TypeOK, TicketTypeOK,
     TaskTypeOK, ApprovalTypeOK
<1>. QED
  BY <1>1, CustomerType, WorkerType, ApprovalType DEF Next

-----------------------------------------------------------------------------
(* The inductive invariant.  StateInv is ServiceInv without the types.     *)

StateInv ==
    /\ RowsAndLocksAgree
    /\ SnapshotsArePast
    /\ CurrentTaskMeansQueued
    /\ QueuedTicketHasLiveTask
    /\ MoneyMovesOnce

RowsUnchanged ==
    UNCHANGED <<ticketVars, taskVars, approvalStatus, approvalType, approvalTicket, execution>>

\* Steps that leave the rows alone and at most drop transactions: they end,
\* roll back or only move a thread.
LEMMA QuietStep ==
    ASSUME ServiceInv, RowsUnchanged,
           \A k \in Tasks : applyTxn'[k] \in {applyTxn[k], NoTxn},
           \A a \in Approvals : decisionTxn'[a] \in {decisionTxn[a], NoTxn},
           \A r \in Requests : requeueTxn'[r] \in {requeueTxn[r], NoTxn}
    PROVE  StateInv'
<1>. USE DEF RowsUnchanged, ticketVars, taskVars
<1>1. RowsAndLocksAgree'
  BY DEF ServiceInv, RowsAndLocksAgree, TaskRowsAgree, ApprovalRowsAgree, MayDecide
<1>2. SnapshotsArePast'
  BY DEF ServiceInv, SnapshotsArePast, IsPast
<1>3. CurrentTaskMeansQueued' /\ QueuedTicketHasLiveTask' /\ MoneyMovesOnce'
  BY DEF ServiceInv, CurrentTaskMeansQueued, QueuedTicketHasLiveTask, MoneyMovesOnce
<1>. QED  BY <1>1, <1>2, <1>3 DEF StateInv

\* A request reads a ticket.
LEMMA BeginRequeueStep ==
    ASSUME ServiceInv, NEW r \in Requests, NEW t \in Tickets, BeginRequeue(r, t)
    PROVE  StateInv'
<1>. USE DEF BeginRequeue, ticketVars, taskVars, approvalVars
<1>1. RowsAndLocksAgree'
  BY DEF ServiceInv, RowsAndLocksAgree, TaskRowsAgree, ApprovalRowsAgree, MayDecide
<1>2. SnapshotsArePast'
  BY FreshSnapshot DEF ServiceInv, TypeOK, SnapshotsArePast, IsPast
<1>3. CurrentTaskMeansQueued' /\ QueuedTicketHasLiveTask' /\ MoneyMovesOnce'
  BY DEF ServiceInv, CurrentTaskMeansQueued, QueuedTicketHasLiveTask, MoneyMovesOnce
<1>. QED  BY <1>1, <1>2, <1>3 DEF StateInv

\* An attempt locks its task and reads the ticket: the snapshot is not older than
\* the task, because no task is newer than its ticket.
LEMMA BeginApplyStep ==
    ASSUME ServiceInv, NEW k \in Tasks, NEW n \in Attempts, NEW answer \in Answers,
           BeginApply(k, n, answer)
    PROVE  StateInv'
<1>. USE DEF BeginApply, ticketVars, taskVars, approvalVars
<1>1. taskStatus[k] = "RUNNING" /\ taskTicket[k] \in Tickets
  BY DEF TaskAcceptsResult, ServiceInv, RowsAndLocksAgree, TaskRowsAgree, ApprovalRowsAgree
<1>2. /\ applyTxn'[k].snap = TicketSnapshot(taskTicket[k])
      /\ \A j \in Tasks \ {k} : applyTxn'[j] = applyTxn[j]
  BY DEF ServiceInv, TypeOK
<1>3. RowsAndLocksAgree'
  BY <1>1, <1>2 DEF ServiceInv, RowsAndLocksAgree, TaskRowsAgree, ApprovalRowsAgree, MayDecide, TicketSnapshot
<1>4. SnapshotsArePast'
  BY <1>1, <1>2, FreshSnapshot DEF ServiceInv, TypeOK, SnapshotsArePast, IsPast
<1>5. CurrentTaskMeansQueued' /\ QueuedTicketHasLiveTask' /\ MoneyMovesOnce'
  BY DEF ServiceInv, CurrentTaskMeansQueued, QueuedTicketHasLiveTask, MoneyMovesOnce
<1>. QED  BY <1>3, <1>4, <1>5 DEF StateInv

\* A decision locks its approval and reads the ticket.
LEMMA BeginDecisionStep ==
    ASSUME ServiceInv, NEW a \in Approvals, NEW decision \in Decisions,
           BeginDecision(a, decision)
    PROVE  StateInv'
<1>. USE DEF BeginDecision, ticketVars, taskVars
<1>1. approvalTicket[a] \in Tickets
  BY DEF MayDecide, OpenStatuses, ServiceInv, RowsAndLocksAgree, TaskRowsAgree, ApprovalRowsAgree
<1>2. /\ decisionTxn'[a] = [snap |-> TicketSnapshot(approvalTicket[a]), decision |-> decision]
      /\ \A b \in Approvals \ {a} : decisionTxn'[b] = decisionTxn[b]
  BY DEF ServiceInv, TypeOK
<1>3. RowsAndLocksAgree'
  BY <1>1, <1>2 DEF ServiceInv, RowsAndLocksAgree, TaskRowsAgree, ApprovalRowsAgree, MayDecide, TicketSnapshot
<1>4. SnapshotsArePast'
  BY <1>1, <1>2, FreshSnapshot DEF ServiceInv, TypeOK, SnapshotsArePast, IsPast
<1>5. CurrentTaskMeansQueued' /\ QueuedTicketHasLiveTask' /\ MoneyMovesOnce'
  BY DEF ServiceInv, CurrentTaskMeansQueued, QueuedTicketHasLiveTask, MoneyMovesOnce
<1>. QED  BY <1>3, <1>4, <1>5 DEF StateInv

\* Steps that take tickets T out of the queue or past it, and end or reschedule
\* the RUNNING tasks they change: a task may end only if it is not the one its
\* ticket awaits, or its ticket is in T.
LEMMA TicketsMoveStep ==
    ASSUME ServiceInv, NEW T \in SUBSET Tickets, NEW next \in TicketStatuses \ {"AI_QUEUED"},
           MoveTickets(T, next), \A t \in T : ticketStatus[t] # "absent",
           UNCHANGED <<taskTicket, taskVersion>>,
           \A k \in Tasks : taskStatus'[k] = taskStatus[k] \/
              /\ taskStatus[k] = "RUNNING"
              /\ taskStatus'[k] # "absent"
              /\ applyTxn'[k] = NoTxn
              /\ taskStatus'[k] \in LiveStatuses \/ taskTicket[k] \in T
                    \/ taskVersion[k] # ticketVersion[taskTicket[k]],
           \A k \in Tasks : applyTxn'[k] \in {applyTxn[k], NoTxn},
           \A a \in Approvals : decisionTxn'[a] \in {decisionTxn[a], NoTxn},
           \A r \in Requests : requeueTxn'[r] \in {requeueTxn[r], NoTxn}
    PROVE  TaskRowsAgree' /\ SnapshotsArePast' /\ CurrentTaskMeansQueued' /\ QueuedTicketHasLiveTask'
<1>1. \A t \in Tickets : /\ ticketVersion[t] \in Nat
                         /\ t \in T => ticketStatus'[t] = next /\ ticketVersion'[t] = ticketVersion[t] + 1
                         /\ t \notin T => ticketStatus'[t] = ticketStatus[t] /\ ticketVersion'[t] = ticketVersion[t]
  BY DEF MoveTickets, ServiceInv, TypeOK, TicketTypeOK
<1>2. next # "absent"
  BY DEF TicketStatuses
<1>3. /\ TicketTypeOK /\ TaskRowsAgree
      /\ \A k \in Tasks : taskVersion[k] \in Nat
      /\ \A k \in Tasks : applyTxn[k] # NoTxn => applyTxn[k].snap \in TicketSnapshots
      /\ \A a \in Approvals : decisionTxn[a] # NoTxn => decisionTxn[a].snap \in TicketSnapshots
      /\ \A r \in Requests : requeueTxn[r] # NoTxn => requeueTxn[r] \in TicketSnapshots
  BY DEF ServiceInv, RowsAndLocksAgree, TypeOK, TaskTypeOK, ApplyTxns, DecisionTxns
<1>4. TaskRowsAgree'
  <2>1. \A t \in Tickets : ticketStatus'[t] = "absent" => ticketVersion'[t] = 0
    BY <1>1, <1>2, <1>3 DEF TaskRowsAgree
  <2>2. \A k \in Tasks : taskStatus'[k] # "absent" =>
           /\ taskTicket[k] \in Tickets
           /\ ticketStatus'[taskTicket[k]] # "absent"
           /\ taskVersion[k] <= ticketVersion'[taskTicket[k]]
    BY <1>1, <1>2, <1>3 DEF TaskRowsAgree
  <2>3. \A k \in Tasks : applyTxn'[k] # NoTxn =>
           /\ taskStatus'[k] = "RUNNING"
           /\ applyTxn'[k].snap.ticket = taskTicket[k]
           /\ taskVersion[k] <= applyTxn'[k].snap.version
    BY <1>3 DEF TaskRowsAgree
  <2>. QED  BY <2>1, <2>2, <2>3 DEF TaskRowsAgree
<1>5. SnapshotsArePast'
  <2>1. ASSUME NEW snap \in TicketSnapshots, IsPast(snap)  PROVE IsPast(snap)'
    BY <1>3, <2>1, MoveKeepsPast
  <2>2. \A snap \in TicketSnapshots : IsPast(snap) =>
           /\ snap.version <= ticketVersion'[snap.ticket]
           /\ snap.version = ticketVersion'[snap.ticket] => snap.status = ticketStatus'[snap.ticket]
    BY <2>1 DEF IsPast
  <2>. QED  BY <1>3, <2>2 DEF ServiceInv, SnapshotsArePast, IsPast
<1>6. CurrentTaskMeansQueued'
  BY <1>1, <1>3 DEF ServiceInv, CurrentTaskMeansQueued, TaskRowsAgree
<1>7. QueuedTicketHasLiveTask'
  BY <1>1, <1>3 DEF ServiceInv, QueuedTicketHasLiveTask
<1>. QED  BY <1>4, <1>5, <1>6, <1>7

\* Moving tickets that are not RESOLVED keeps the money where it is.
LEMMA MoneyStays ==
    ASSUME ServiceInv, NEW T \in SUBSET Tickets, NEW next, MoveTickets(T, next),
           \A t \in T : ticketStatus[t] # "RESOLVED",
           UNCHANGED <<approvalStatus, approvalTicket, execution>>
    PROVE  MoneyMovesOnce'
<1>1. \A t \in Tickets \ T : ticketStatus'[t] = ticketStatus[t]
  BY DEF MoveTickets
<1>2. \A a \in Approvals : execution[a] # "none" => approvalTicket[a] \in Tickets
  BY DEF ServiceInv, MoneyMovesOnce, RowsAndLocksAgree, ApprovalRowsAgree
<1>. QED
  BY <1>1, <1>2 DEF ServiceInv, MoneyMovesOnce

\* A retry, a final failure or a recovery: the ticket a failed task was awaited by
\* goes to human review with it.
LEMMA RetryOrFailStep ==
    ASSUME ServiceInv, NEW K \in SUBSET Tasks, NEW retryable, RetryOrFail(K, retryable),
           \A k \in K : taskStatus[k] = "RUNNING" /\ applyTxn[k] = NoTxn,
           UNCHANGED <<approvalVars, applyTxn, decisionTxn, requeueTxn>>
    PROVE  StateInv'
<1>. DEFINE failed == {k \in K : ~ShouldRetry(attemptCount[k], retryable)}
            T == TicketsToEscalate(failed)
<1>1. \A k \in K : taskTicket[k] \in Tickets
  BY DEF ServiceInv, RowsAndLocksAgree, TaskRowsAgree
<1>2. T \in SUBSET Tickets /\ \A t \in T : ticketStatus[t] = "AI_QUEUED"
  BY <1>1 DEF TicketsToEscalate, TicketAwaits
<1>3. MoveTickets(T, "HUMAN_REVIEW") /\ UNCHANGED <<taskTicket, taskVersion>>
  BY DEF RetryOrFail
<1>4. \A k \in Tasks : taskStatus'[k] = taskStatus[k] \/
         /\ taskStatus[k] = "RUNNING"
         /\ taskStatus'[k] # "absent"
         /\ applyTxn'[k] = NoTxn
         /\ taskStatus'[k] \in LiveStatuses \/ taskTicket[k] \in T
               \/ taskVersion[k] # ticketVersion[taskTicket[k]]
  <2>1. SUFFICES ASSUME NEW k \in K
                 PROVE  /\ taskStatus'[k] \in {"PENDING", "FAILED"}
                        /\ taskStatus'[k] = "FAILED" => \/ taskTicket[k] \in T
                                                        \/ taskVersion[k] # ticketVersion[taskTicket[k]]
    BY DEF RetryOrFail, LiveStatuses
  <2>2. taskStatus'[k] = IF k \in failed THEN "FAILED" ELSE "PENDING"
    BY DEF RetryOrFail
  <2>3. CASE k \in failed
    <3>1. taskVersion[k] = ticketVersion[taskTicket[k]] => ticketStatus[taskTicket[k]] = "AI_QUEUED"
      BY DEF ServiceInv, CurrentTaskMeansQueued
    <3>2. taskVersion[k] = ticketVersion[taskTicket[k]] => taskTicket[k] \in T
      BY <2>3, <3>1 DEF TicketsToEscalate, TicketAwaits
    <3>. QED  BY <2>2, <2>3, <3>2
  <2>4. CASE k \notin failed
    BY <2>2, <2>4
  <2>. QED  BY <2>3, <2>4
<1>. HIDE DEF T, failed
<1>5. TaskRowsAgree' /\ SnapshotsArePast' /\ CurrentTaskMeansQueued' /\ QueuedTicketHasLiveTask'
  BY <1>2, <1>3, <1>4, TicketsMoveStep DEF TicketStatuses
<1>6. MoneyMovesOnce'
  BY <1>2, <1>3, MoneyStays DEF approvalVars
<1>7. ApprovalRowsAgree'
  BY DEF ServiceInv, RowsAndLocksAgree, ApprovalRowsAgree, MayDecide, approvalVars
<1>. QED  BY <1>5, <1>6, <1>7 DEF StateInv, RowsAndLocksAgree

\* The stale branch of apply: the outdated task is never the one its ticket awaits,
\* unless the ticket is routed in the same transaction.
LEMMA CommitStaleResultStep ==
    ASSUME ServiceInv, NEW k \in Tasks, CommitStaleResult(k)
    PROVE  StateInv'
<1>. DEFINE snap == applyTxn[k].snap
            T == IF snap.status = "AI_QUEUED" THEN {snap.ticket} ELSE {}
<1>1. /\ taskStatus[k] = "RUNNING" /\ taskTicket[k] \in Tickets
      /\ snap.ticket = taskTicket[k] /\ taskVersion[k] <= snap.version
      /\ IsPast(snap) /\ snap \in TicketSnapshots
      /\ taskVersion[k] \in Nat /\ ticketVersion[taskTicket[k]] \in Nat
  BY DEF CommitStaleResult, ServiceInv, RowsAndLocksAgree, TaskRowsAgree, SnapshotsArePast,
     TypeOK, TaskTypeOK, TicketTypeOK, ApplyTxns
<1>2. T \in SUBSET Tickets /\ \A t \in T : ticketStatus[t] = "AI_QUEUED"
  BY <1>1 DEF CommitStaleResult, SnapshotIsCurrent, IsPast
<1>3. MoveTickets(T, "HUMAN_REVIEW")
  <2>1. CASE snap.status = "AI_QUEUED"
    BY <2>1 DEF CommitStaleResult
  <2>2. CASE snap.status # "AI_QUEUED"
    BY <2>2 DEF CommitStaleResult, MoveTickets, ticketVars, ServiceInv, TypeOK, TicketTypeOK
  <2>. QED  BY <2>1, <2>2
<1>4. /\ taskStatus' = [taskStatus EXCEPT ![k] = "FAILED"]
      /\ UNCHANGED <<taskTicket, taskVersion>>
      /\ applyTxn' = [applyTxn EXCEPT ![k] = NoTxn]
      /\ UNCHANGED <<decisionTxn, requeueTxn, approvalVars>>
      /\ taskVersion[k] # snap.version
  BY DEF CommitStaleResult, SetTaskStatus, EndApply, ResultIsStale
<1>5. taskVersion[k] # ticketVersion[taskTicket[k]]
  BY <1>1, <1>4 DEF IsPast, TicketSnapshots
<1>6. \A j \in Tasks : taskStatus'[j] = taskStatus[j] \/
         /\ taskStatus[j] = "RUNNING"
         /\ taskStatus'[j] # "absent"
         /\ applyTxn'[j] = NoTxn
         /\ taskStatus'[j] \in LiveStatuses \/ taskTicket[j] \in T
               \/ taskVersion[j] # ticketVersion[taskTicket[j]]
  BY <1>1, <1>4, <1>5 DEF ServiceInv, TypeOK, TaskTypeOK
<1>7. \A j \in Tasks : applyTxn'[j] \in {applyTxn[j], NoTxn}
  BY <1>4 DEF ServiceInv, TypeOK
<1>. HIDE DEF T, snap
<1>8. TaskRowsAgree' /\ SnapshotsArePast' /\ CurrentTaskMeansQueued' /\ QueuedTicketHasLiveTask'
  BY <1>2, <1>3, <1>4, <1>6, <1>7, TicketsMoveStep DEF TicketStatuses
<1>9. MoneyMovesOnce'
  BY <1>2, <1>3, <1>4, MoneyStays DEF approvalVars
<1>10. ApprovalRowsAgree'
  BY <1>4 DEF ServiceInv, RowsAndLocksAgree, ApprovalRowsAgree, MayDecide, approvalVars
<1>. QED  BY <1>8, <1>9, <1>10 DEF StateInv, RowsAndLocksAgree

\* What a transaction that passes the version checks of apply knows: the ticket is
\* the task's and still awaits it.
LEMMA CommittedResultIsAwaited ==
    ASSUME ServiceInv, NEW k \in Tasks, CommitResult(k)
    PROVE  /\ TicketAwaits(k)
           /\ taskStatus[k] = "RUNNING" /\ taskTicket[k] \in Tickets
           /\ applyTxn[k].snap.ticket = taskTicket[k]
<1>1. /\ taskStatus[k] = "RUNNING" /\ taskTicket[k] \in Tickets
      /\ applyTxn[k].snap.ticket = taskTicket[k]
  BY DEF CommitResult, ServiceInv, RowsAndLocksAgree, TaskRowsAgree
<1>2. ticketVersion[taskTicket[k]] = taskVersion[k]
  BY <1>1 DEF CommitResult, UpdateTicket, SnapshotIsCurrent, ResultIsStale
<1>. QED
  BY <1>1, <1>2 DEF ServiceInv, CurrentTaskMeansQueued, TicketAwaits

\* A recommendation is applied, with or without a new approval.
LEMMA CommitResultStep ==
    ASSUME ServiceInv, NEW k \in Tasks, CommitResult(k)
    PROVE  StateInv'
<1>. DEFINE T == {taskTicket[k]}
            next == NextStatus(applyTxn[k].answer)
<1>1. /\ TicketAwaits(k) /\ taskStatus[k] = "RUNNING" /\ taskTicket[k] \in Tickets
      /\ applyTxn[k].snap.ticket = taskTicket[k]
  BY CommittedResultIsAwaited
<1>2. T \in SUBSET Tickets /\ \A t \in T : ticketStatus[t] = "AI_QUEUED"
  BY <1>1 DEF TicketAwaits
<1>3. MoveTickets(T, next) /\ next \in TicketStatuses \ {"AI_QUEUED"}
  BY <1>1 DEF CommitResult, UpdateTicket, NextStatus, TicketStatuses
<1>4. /\ taskStatus' = [taskStatus EXCEPT ![k] = "SUCCEEDED"]
      /\ UNCHANGED <<taskTicket, taskVersion>>
      /\ applyTxn' = [applyTxn EXCEPT ![k] = NoTxn]
      /\ UNCHANGED <<decisionTxn, requeueTxn>>
  BY DEF CommitResult, SetTaskStatus, EndApply
<1>5. \A j \in Tasks : taskStatus'[j] = taskStatus[j] \/
         /\ taskStatus[j] = "RUNNING"
         /\ taskStatus'[j] # "absent"
         /\ applyTxn'[j] = NoTxn
         /\ taskStatus'[j] \in LiveStatuses \/ taskTicket[j] \in T
               \/ taskVersion[j] # ticketVersion[taskTicket[j]]
  BY <1>1, <1>4 DEF ServiceInv, TypeOK, TaskTypeOK
<1>6. \A j \in Tasks : applyTxn'[j] \in {applyTxn[j], NoTxn}
  BY <1>4 DEF ServiceInv, TypeOK
<1>. HIDE DEF T, next
<1>7. TaskRowsAgree' /\ SnapshotsArePast' /\ CurrentTaskMeansQueued' /\ QueuedTicketHasLiveTask'
  BY <1>2, <1>3, <1>4, <1>5, <1>6, TicketsMoveStep
<1>8. CASE UNCHANGED approvalVars
  <2>1. MoneyMovesOnce'
    BY <1>2, <1>3, <1>8, MoneyStays DEF approvalVars
  <2>2. ApprovalRowsAgree'
    BY <1>4, <1>8 DEF ServiceInv, RowsAndLocksAgree, ApprovalRowsAgree, MayDecide, approvalVars
  <2>. QED  BY <1>7, <2>1, <2>2 DEF StateInv, RowsAndLocksAgree
<1>9. ASSUME NEW a \in Approvals, NEW type, InsertApproval(a, applyTxn[k].snap.ticket, type)
      PROVE  StateInv'
  <2>1. /\ approvalStatus[a] = "absent" /\ execution[a] = "none" /\ decisionTxn[a] = NoTxn
        /\ approvalTicket'[a] = taskTicket[k]
        /\ \A b \in Approvals \ {a} : /\ approvalStatus'[b] = approvalStatus[b]
                                      /\ approvalType'[b] = approvalType[b]
                                      /\ approvalTicket'[b] = approvalTicket[b]
        /\ execution' = execution
    BY <1>1, <1>9 DEF InsertApproval, ServiceInv, TypeOK, ApprovalTypeOK, MoneyMovesOnce,
       RowsAndLocksAgree, ApprovalRowsAgree, MayDecide, OpenStatuses
  <2>2. MoneyMovesOnce'
    <3>1. \A t \in Tickets : ticketStatus[t] = "RESOLVED" => ticketStatus'[t] = "RESOLVED"
      BY <1>2, <1>3 DEF MoveTickets
    <3>2. \A b \in Approvals : execution[b] # "none" => approvalTicket[b] \in Tickets
      BY DEF ServiceInv, MoneyMovesOnce, RowsAndLocksAgree, ApprovalRowsAgree
    <3>. QED  BY <2>1, <3>1, <3>2 DEF ServiceInv, MoneyMovesOnce
  <2>3. ApprovalRowsAgree'
    BY <1>1, <1>4, <2>1 DEF ServiceInv, RowsAndLocksAgree, ApprovalRowsAgree, MayDecide
  <2>. QED  BY <1>7, <2>2, <2>3 DEF StateInv, RowsAndLocksAgree
<1>. QED
  BY <1>8, <1>9 DEF CommitResult

\* A decision: its ticket was not RESOLVED and had granted nothing, because the
\* transition was legal for the status read and that status is still current.
LEMMA CommitDecisionStep ==
    ASSUME ServiceInv, NEW a \in Approvals, CommitDecision(a)
    PROVE  StateInv'
<1>. DEFINE snap == decisionTxn[a].snap
            decision == decisionTxn[a].decision
            T == {snap.ticket}
            next == TicketAfter(decision)
<1>1. /\ decisionTxn[a] # NoTxn /\ MayDecide(a, decision) /\ snap.ticket = approvalTicket[a]
      /\ approvalTicket[a] \in Tickets /\ approvalStatus[a] \in OpenStatuses
      /\ IsPast(snap) /\ decision \in Decisions
  BY DEF CommitDecision, ServiceInv, RowsAndLocksAgree, ApprovalRowsAgree, SnapshotsArePast,
     MayDecide, OpenStatuses, TypeOK, DecisionTxns
<1>2. snap.status = ticketStatus[snap.ticket] /\ CanTransition(snap.status, next)
  BY <1>1 DEF CommitDecision, UpdateTicket, SnapshotIsCurrent, IsPast
<1>3. T \in SUBSET Tickets /\ \A t \in T : ticketStatus[t] \notin {"absent", "RESOLVED"}
  BY <1>1, <1>2, TransitionFacts
<1>4. MoveTickets(T, next) /\ next \in TicketStatuses \ {"AI_QUEUED"}
  BY DEF CommitDecision, UpdateTicket, TicketAfter, TicketStatuses
<1>5. /\ approvalStatus' = [approvalStatus EXCEPT ![a] = DecidedStatus(decision)]
      /\ execution' = [execution EXCEPT ![a] = ExecutionOf(decision)]
      /\ UNCHANGED <<approvalType, approvalTicket, applyTxn, requeueTxn>>
      /\ decisionTxn' = [decisionTxn EXCEPT ![a] = NoTxn]
      /\ UNCHANGED <<taskStatus, taskTicket, taskVersion>>
  BY DEF CommitDecision, DecideApproval, taskVars
<1>6. \A b \in Approvals : decisionTxn'[b] \in {decisionTxn[b], NoTxn}
  BY <1>5 DEF ServiceInv, TypeOK
<1>. HIDE DEF T, snap
<1>7. TaskRowsAgree' /\ SnapshotsArePast' /\ CurrentTaskMeansQueued' /\ QueuedTicketHasLiveTask'
  BY <1>3, <1>4, <1>5, <1>6, TicketsMoveStep
<1>8. ApprovalRowsAgree'
  BY <1>1, <1>5 DEF ServiceInv, RowsAndLocksAgree, ApprovalRowsAgree, MayDecide, TypeOK, ApprovalTypeOK
<1>9. MoneyMovesOnce'
  <2>1. \A t \in Tickets : ticketStatus[t] = "RESOLVED" => ticketStatus'[t] = "RESOLVED"
    BY <1>3, <1>4 DEF MoveTickets
  <2>2. \A b \in Approvals : execution[b] # "none" =>
           /\ approvalTicket[b] \in Tickets /\ approvalTicket[b] # approvalTicket[a]
           /\ b # a /\ approvalStatus[b] = "approved"
    BY <1>1, <1>3 DEF T, ServiceInv, MoneyMovesOnce, RowsAndLocksAgree, ApprovalRowsAgree, OpenStatuses
  <2>3. \A b \in Approvals \ {a} : approvalStatus'[b] = approvalStatus[b] /\ execution'[b] = execution[b]
    BY <1>5
  <2>4. execution'[a] # "none" => approvalStatus'[a] = "approved" /\ ticketStatus'[approvalTicket[a]] = "RESOLVED"
    <3>1. execution'[a] = ExecutionOf(decision) /\ approvalStatus'[a] = DecidedStatus(decision)
      BY <1>5 DEF ServiceInv, TypeOK, ApprovalTypeOK
    <3>2. ExecutionOf(decision) # "none" => DecidedStatus(decision) = "approved" /\ next = "RESOLVED"
      BY <1>1 DEF ExecutionOf, DecidedStatus, TicketAfter, Decisions
    <3>3. ticketStatus'[approvalTicket[a]] = next
      BY <1>1, <1>4 DEF MoveTickets, T
    <3>. QED  BY <3>1, <3>2, <3>3
  <2>. HIDE DEF next, decision
  <2>. QED
    BY <1>5, <2>1, <2>2, <2>3, <2>4 DEF ServiceInv, MoneyMovesOnce
<1>. QED  BY <1>7, <1>8, <1>9 DEF StateInv, RowsAndLocksAgree

\* assignSupervisor changes the status of a pending approval without a transaction.
LEMMA AssignSupervisorStep ==
    ASSUME ServiceInv, NEW a \in Approvals, AssignSupervisor(a)
    PROVE  StateInv'
<1>1. /\ approvalStatus[a] = "pending" /\ decisionTxn[a] = NoTxn
      /\ approvalStatus' = [approvalStatus EXCEPT ![a] = "in_review"]
      /\ execution' = execution
      /\ UNCHANGED <<approvalType, approvalTicket, ticketStatus, ticketVersion, taskStatus,
                     taskTicket, taskVersion, applyTxn, decisionTxn, requeueTxn>>
  BY DEF AssignSupervisor, DecideApproval, ticketVars, taskVars, threadVars, ServiceInv, TypeOK,
     ApprovalTypeOK
<1>2. TaskRowsAgree' /\ SnapshotsArePast' /\ CurrentTaskMeansQueued' /\ QueuedTicketHasLiveTask'
  BY <1>1 DEF ServiceInv, RowsAndLocksAgree, TaskRowsAgree, SnapshotsArePast, IsPast,
     CurrentTaskMeansQueued, QueuedTicketHasLiveTask
<1>3. ApprovalRowsAgree' /\ MoneyMovesOnce'
  BY <1>1 DEF ServiceInv, RowsAndLocksAgree, ApprovalRowsAgree, MayDecide, MoneyMovesOnce,
     TypeOK, ApprovalTypeOK
<1>. QED  BY <1>2, <1>3 DEF StateInv, RowsAndLocksAgree

\* A worker claims a task: PENDING becomes RUNNING and no transaction is open on it.
LEMMA ClaimStep ==
    ASSUME ServiceInv, NEW k \in Tasks, Claim(k)
    PROVE  StateInv'
<1>1. /\ taskStatus[k] = "PENDING" /\ applyTxn[k] = NoTxn
      /\ taskStatus' = [taskStatus EXCEPT ![k] = "RUNNING"]
      /\ UNCHANGED <<approvalVars, ticketStatus, ticketVersion, taskTicket, taskVersion,
                     applyTxn, decisionTxn, requeueTxn>>
  BY DEF Claim, StartTask, ticketVars
<1>2. TaskRowsAgree' /\ SnapshotsArePast'
  BY <1>1 DEF ServiceInv, RowsAndLocksAgree, TaskRowsAgree, SnapshotsArePast, IsPast, TypeOK, TaskTypeOK
<1>3. CurrentTaskMeansQueued' /\ QueuedTicketHasLiveTask'
  BY <1>1 DEF ServiceInv, CurrentTaskMeansQueued, QueuedTicketHasLiveTask, LiveStatuses, TypeOK, TaskTypeOK
<1>4. ApprovalRowsAgree' /\ MoneyMovesOnce'
  BY <1>1 DEF ServiceInv, RowsAndLocksAgree, ApprovalRowsAgree, MayDecide, MoneyMovesOnce, approvalVars
<1>. QED  BY <1>2, <1>3, <1>4 DEF StateInv, RowsAndLocksAgree

\* A ticket enters AI_QUEUED together with a task of its new version; other tickets
\* and rows stay.  Shared by intake and by queueing again.
LEMMA EnterQueueStep ==
    ASSUME ServiceInv, NEW t \in Tickets, NEW k \in Tasks,
           ticketStatus[t] \notin {"AI_QUEUED", "RESOLVED"},
           MoveTickets({t}, "AI_QUEUED"), InsertTask(k, t, ticketVersion[t] + 1),
           UNCHANGED <<approvalVars, applyTxn, decisionTxn>>,
           \A r \in Requests : requeueTxn'[r] \in {requeueTxn[r], NoTxn}
    PROVE  StateInv'
<1>1. /\ \A u \in Tickets : ticketVersion[u] \in Nat
      /\ ticketStatus'[t] = "AI_QUEUED" /\ ticketVersion'[t] = ticketVersion[t] + 1
      /\ \A u \in Tickets \ {t} : ticketStatus'[u] = ticketStatus[u] /\ ticketVersion'[u] = ticketVersion[u]
  BY DEF MoveTickets, ServiceInv, TypeOK, TicketTypeOK
<1>2. /\ taskStatus[k] = "absent" /\ taskStatus'[k] = "PENDING"
      /\ taskTicket'[k] = t /\ taskVersion'[k] = ticketVersion[t] + 1
      /\ \A j \in Tasks \ {k} : /\ taskStatus'[j] = taskStatus[j]
                                /\ taskTicket'[j] = taskTicket[j]
                                /\ taskVersion'[j] = taskVersion[j]
  BY DEF InsertTask, ServiceInv, TypeOK, TaskTypeOK
<1>3. /\ TicketTypeOK /\ TaskRowsAgree
      /\ \A j \in Tasks : taskVersion[j] \in Nat
      /\ \A j \in Tasks : applyTxn[j] # NoTxn => applyTxn[j].snap \in TicketSnapshots
      /\ \A a \in Approvals : decisionTxn[a] # NoTxn => decisionTxn[a].snap \in TicketSnapshots
      /\ \A r \in Requests : requeueTxn[r] # NoTxn => requeueTxn[r] \in TicketSnapshots
  BY DEF ServiceInv, RowsAndLocksAgree, TypeOK, TaskTypeOK, ApplyTxns, DecisionTxns
<1>4. TaskRowsAgree'
  <2>1. applyTxn[k] = NoTxn
    BY <1>2, <1>3 DEF TaskRowsAgree
  <2>. QED  BY <1>1, <1>2, <1>3, <2>1 DEF TaskRowsAgree
<1>5. SnapshotsArePast'
  <2>1. ASSUME NEW snap \in TicketSnapshots, IsPast(snap)  PROVE IsPast(snap)'
    BY <1>3, <2>1, MoveKeepsPast
  <2>2. \A snap \in TicketSnapshots : IsPast(snap) =>
           /\ snap.version <= ticketVersion'[snap.ticket]
           /\ snap.version = ticketVersion'[snap.ticket] => snap.status = ticketStatus'[snap.ticket]
    BY <2>1 DEF IsPast
  <2>. QED  BY <1>3, <2>2 DEF ServiceInv, SnapshotsArePast, IsPast
<1>6. CurrentTaskMeansQueued'
  BY <1>1, <1>2, <1>3 DEF ServiceInv, CurrentTaskMeansQueued, TaskRowsAgree
<1>7. QueuedTicketHasLiveTask'
  <2>1. SUFFICES ASSUME NEW u \in Tickets \ {t}, ticketStatus[u] = "AI_QUEUED"
                 PROVE  \E j \in Tasks : /\ taskTicket'[j] = u
                                         /\ taskVersion'[j] = ticketVersion'[u]
                                         /\ taskStatus'[j] \in LiveStatuses
    BY <1>1, <1>2 DEF QueuedTicketHasLiveTask, LiveStatuses
  <2>2. PICK j \in Tasks : /\ taskTicket[j] = u
                           /\ taskVersion[j] = ticketVersion[u]
                           /\ taskStatus[j] \in LiveStatuses
    BY <2>1 DEF ServiceInv, QueuedTicketHasLiveTask
  <2>. QED  BY <1>1, <1>2, <2>2 DEF LiveStatuses
<1>8. MoneyMovesOnce'
  BY MoneyStays DEF approvalVars
<1>9. ApprovalRowsAgree'
  BY DEF ServiceInv, RowsAndLocksAgree, ApprovalRowsAgree, MayDecide, approvalVars
<1>. QED  BY <1>4, <1>5, <1>6, <1>7, <1>8, <1>9 DEF StateInv, RowsAndLocksAgree

\* The steps of customers preserve the invariant.
LEMMA CustomerInv ==
    ASSUME ServiceInv, CustomerStep
    PROVE  StateInv'
<1>1. ASSUME NEW t \in Tickets, NEW k \in Tasks, CreateTicket(t, k)  PROVE StateInv'
  <2>1. ticketStatus[t] = "absent" /\ ticketVersion[t] = 0
    BY <1>1 DEF CreateTicket, ServiceInv, RowsAndLocksAgree, TaskRowsAgree
  <2>2. MoveTickets({t}, "AI_QUEUED")
    <3>1. TicketTypeOK /\ ticketVersion[t] + 1 = 1
      BY <2>1 DEF ServiceInv, TypeOK
    <3>2. ticketStatus' = [u \in Tickets |-> IF u \in {t} THEN "AI_QUEUED" ELSE ticketStatus[u]]
      BY <1>1, <3>1 DEF CreateTicket, TicketTypeOK
    <3>3. ticketVersion' = [u \in Tickets |-> IF u \in {t} THEN ticketVersion[u] + 1
                                             ELSE ticketVersion[u]]
      BY <1>1, <3>1 DEF CreateTicket, TicketTypeOK
    <3>. QED  BY <3>2, <3>3 DEF MoveTickets
  <2>3. InsertTask(k, t, ticketVersion[t] + 1)
    BY <1>1, <2>1 DEF CreateTicket
  <2>4. UNCHANGED <<approvalVars, applyTxn, decisionTxn, requeueTxn>>
    BY <1>1 DEF CreateTicket, threadVars
  <2>. QED  BY <2>1, <2>2, <2>3, <2>4, EnterQueueStep
<1>2. ASSUME NEW r \in Requests, NEW t \in Tickets, BeginRequeue(r, t)  PROVE StateInv'
  BY <1>2, BeginRequeueStep
<1>3. ASSUME NEW r \in Requests, NEW k \in Tasks, CommitRequeue(r, k)  PROVE StateInv'
  <2>. DEFINE snap == requeueTxn[r]
  <2>1. /\ snap.ticket \in Tickets /\ IsPast(snap)
        /\ snap.version = ticketVersion[snap.ticket] /\ CanTransition(snap.status, "AI_QUEUED")
    BY <1>3 DEF CommitRequeue, UpdateTicket, SnapshotIsCurrent, ServiceInv, SnapshotsArePast,
       TypeOK, TicketSnapshots
  <2>2. ticketStatus[snap.ticket] \notin {"AI_QUEUED", "RESOLVED"}
    BY <2>1, QueueFacts DEF IsPast
  <2>3. /\ MoveTickets({snap.ticket}, "AI_QUEUED")
        /\ InsertTask(k, snap.ticket, ticketVersion[snap.ticket] + 1)
        /\ UNCHANGED <<approvalVars, applyTxn, decisionTxn>>
    BY <1>3, <2>1 DEF CommitRequeue, UpdateTicket
  <2>4. \A q \in Requests : requeueTxn'[q] \in {requeueTxn[q], NoTxn}
    BY <1>3 DEF CommitRequeue, ServiceInv, TypeOK
  <2>. HIDE DEF snap
  <2>. QED  BY <2>1, <2>2, <2>3, <2>4, EnterQueueStep
<1>4. ASSUME NEW r \in Requests, AbortRequeue(r)  PROVE StateInv'
  BY <1>4, QuietStep DEF AbortRequeue, RowsUnchanged, approvalVars, ServiceInv, TypeOK
<1>. QED
  BY <1>1, <1>2, <1>3, <1>4 DEF CustomerStep

\* The steps of attempts and of the dispatcher preserve the invariant.
LEMMA WorkerInv ==
    ASSUME ServiceInv, WorkerStep
    PROVE  StateInv'
<1>1. ASSUME RowsUnchanged, UNCHANGED <<decisionTxn, requeueTxn>>,
             \E k \in Tasks : applyTxn' \in {applyTxn, [applyTxn EXCEPT ![k] = NoTxn]}
      PROVE  StateInv'
  BY <1>1, QuietStep DEF ServiceInv, TypeOK
<1>2. ASSUME NEW k \in Tasks, RollbackApply(k)  PROVE StateInv'
  BY <1>1, <1>2 DEF RollbackApply, EndApply, RowsUnchanged, approvalVars
<1>3. ASSUME NEW k \in Tasks, NEW n \in Attempts,
             Submit(k, n) \/ RejectSubmission(k, n) \/ AnalysisFails(k, n)
             \/ RefuseLateResult(k, n) \/ LoseAttempt(k, n)
      PROVE  StateInv'
  BY <1>1, <1>3 DEF Submit, RejectSubmission, AnalysisFails, RefuseLateResult, LoseAttempt,
     RowsUnchanged, approvalVars
<1>4. ASSUME NEW k \in Tasks, NEW n \in Attempts, RecordFailure(k, n)  PROVE StateInv'
  <2>1. CASE taskStatus[k] = "RUNNING"
    BY <1>4, <2>1, RetryOrFailStep DEF RecordFailure
  <2>2. CASE taskStatus[k] # "RUNNING"
    BY <1>1, <1>4, <2>2 DEF RecordFailure, RowsUnchanged, approvalVars
  <2>. QED  BY <2>1, <2>2
<1>5. ASSUME NEW K \in SUBSET Tasks, RecoverExpiredLeases(K)  PROVE StateInv'
  BY <1>5, RetryOrFailStep DEF RecoverExpiredLeases, threadVars
<1>. QED
  BY <1>2, <1>3, <1>4, <1>5, ClaimStep, BeginApplyStep, CommitStaleResultStep, CommitResultStep
  DEF WorkerStep, AttemptEnds, ApplyEnds

\* The steps of agents and supervisors preserve the invariant.
LEMMA ApprovalInv ==
    ASSUME ServiceInv, ApprovalStep
    PROVE  StateInv'
<1>1. ASSUME NEW a \in Approvals, AbortDecision(a)  PROVE StateInv'
  BY <1>1, QuietStep DEF AbortDecision, RowsUnchanged, approvalVars, ServiceInv, TypeOK
<1>. QED
  BY <1>1, BeginDecisionStep, CommitDecisionStep, AssignSupervisorStep DEF ApprovalStep

-----------------------------------------------------------------------------
(* The theorems.                                                           *)

\* The empty database satisfies the invariant.
LEMMA InitInv == Init => ServiceInv
<1>. SUFFICES ASSUME Init PROVE ServiceInv
  OBVIOUS
<1>1. TypeOK
  BY DEF Init, TicketInit, TaskInit, ApprovalInit, TypeOK, TicketTypeOK, TaskTypeOK,
     ApprovalTypeOK, TaskStatuses, ApprovalStatuses, Stages
<1>2. TaskRowsAgree /\ SnapshotsArePast /\ CurrentTaskMeansQueued /\ QueuedTicketHasLiveTask
  BY DEF Init, TicketInit, TaskInit, TaskRowsAgree, SnapshotsArePast, CurrentTaskMeansQueued,
     QueuedTicketHasLiveTask
<1>3. ApprovalRowsAgree /\ MoneyMovesOnce
  BY DEF Init, ApprovalInit, ApprovalRowsAgree, MoneyMovesOnce
<1>. QED  BY <1>1, <1>2, <1>3 DEF ServiceInv, RowsAndLocksAgree

\* Every step preserves the invariant.
LEMMA StepInv == ServiceInv /\ [Next]_vars => ServiceInv'
<1>. SUFFICES ASSUME ServiceInv, [Next]_vars PROVE ServiceInv'
  OBVIOUS
<1>1. TypeOK'
  BY StepType DEF ServiceInv
<1>2. StateInv'
  <2>1. CASE UNCHANGED vars
    BY <2>1, QuietStep DEF vars, threadVars, approvalVars, RowsUnchanged
  <2>. QED
    BY <2>1, CustomerInv, WorkerInv, ApprovalInv DEF Next
<1>. QED  BY <1>1, <1>2 DEF StateInv, ServiceInv

\* The inductive invariant holds in every reachable state.
THEOREM InvariantHolds == Spec => []ServiceInv
BY InitInv, StepInv, PTL DEF Spec

\* Rows, threads and open transactions always have their types.
THEOREM TypeCorrect == Spec => []TypeOK
<1>1. ServiceInv => TypeOK  BY DEF ServiceInv
<1>. QED  BY <1>1, InvariantHolds, PTL

\* No ticket is lost: one that is AI_QUEUED always has a live task of its version,
\* whatever crashes, collides or comes late.
THEOREM NoTicketIsLost == Spec => []QueuedTicketHasLiveTask
<1>1. ServiceInv => QueuedTicketHasLiveTask  BY DEF ServiceInv
<1>. QED  BY <1>1, InvariantHolds, PTL

\* A task whose version is the ticket's always finds the ticket AI_QUEUED.
THEOREM VersionDecides == Spec => []CurrentTaskMeansQueued
<1>1. ServiceInv => CurrentTaskMeansQueued  BY DEF ServiceInv
<1>. QED  BY <1>1, InvariantHolds, PTL

\* Money moves at most once per ticket, and only by an approved approval of a
\* RESOLVED ticket.
THEOREM MoneyIsSafe == Spec => []MoneyMovesOnce
<1>1. ServiceInv => MoneyMovesOnce  BY DEF ServiceInv
<1>. QED  BY <1>1, InvariantHolds, PTL

-----------------------------------------------------------------------------
(* What a step may do to a task.                                           *)

\* The life of a task row, with its attempt counter.
TaskMoves(k) ==
    \/ taskStatus'[k] = taskStatus[k] /\ attemptCount'[k] = attemptCount[k]
    \/ /\ taskStatus[k] = "absent" /\ taskStatus'[k] = "PENDING"
       /\ attemptCount'[k] = attemptCount[k]
    \/ /\ taskStatus[k] = "PENDING" /\ taskStatus'[k] = "RUNNING"
       /\ attemptCount'[k] = attemptCount[k] + 1
    \/ /\ taskStatus[k] = "RUNNING" /\ taskStatus'[k] = "PENDING"
       /\ attemptCount'[k] = attemptCount[k] /\ attemptCount[k] < MaxAttempts
    \/ /\ taskStatus[k] = "RUNNING" /\ taskStatus'[k] = "FAILED"
       /\ attemptCount'[k] = attemptCount[k]
    \/ /\ taskStatus[k] = "RUNNING" /\ taskStatus'[k] = "SUCCEEDED" /\ CommitResult(k)
       /\ attemptCount'[k] = attemptCount[k]

\* Retrying or failing RUNNING tasks moves them as TaskMoves says.
LEMMA RetryOrFailMoves ==
    ASSUME NEW K \in SUBSET Tasks, NEW retryable, RetryOrFail(K, retryable),
           \A k \in K : taskStatus[k] = "RUNNING", NEW k \in Tasks
    PROVE  TaskMoves(k)
BY DEF RetryOrFail, ShouldRetry, TaskMoves

\* Every step moves every task as TaskMoves says.
LEMMA StepMovesTasks ==
    ASSUME TypeOK, TaskRowsAgree, [Next]_vars, NEW k \in Tasks
    PROVE  TaskMoves(k)
<1>1. CASE UNCHANGED <<taskStatus, attemptCount>>
  BY <1>1 DEF TaskMoves
<1>2. ASSUME NEW j \in Tasks, NEW t, NEW v, InsertTask(j, t, v)  PROVE TaskMoves(k)
  BY <1>2 DEF InsertTask, TaskMoves, TypeOK, TaskTypeOK
<1>3. ASSUME NEW j \in Tasks, Claim(j)  PROVE TaskMoves(k)
  BY <1>3 DEF Claim, StartTask, TaskMoves, TypeOK, TaskTypeOK
<1>4. ASSUME NEW j \in Tasks, CommitStaleResult(j) \/ CommitResult(j)  PROVE TaskMoves(k)
  <2>1. taskStatus[j] = "RUNNING"
    BY <1>4 DEF CommitStaleResult, CommitResult, TaskRowsAgree
  <2>2. CASE CommitStaleResult(j)
    BY <2>1, <2>2 DEF CommitStaleResult, SetTaskStatus, TaskMoves, TypeOK, TaskTypeOK
  <2>3. CASE CommitResult(j)
    <3>1. taskStatus' = [taskStatus EXCEPT ![j] = "SUCCEEDED"] /\ UNCHANGED attemptCount
      BY <2>3 DEF CommitResult, SetTaskStatus
    <3>2. CASE j = k
      BY <2>1, <2>3, <3>1, <3>2 DEF TaskMoves, TypeOK, TaskTypeOK
    <3>3. CASE j # k
      BY <3>1, <3>3 DEF TaskMoves, TypeOK, TaskTypeOK
    <3>. QED  BY <3>2, <3>3
  <2>. QED  BY <1>4, <2>2, <2>3
<1>5. ASSUME NEW j \in Tasks, NEW n \in Attempts, RecordFailure(j, n)  PROVE TaskMoves(k)
  <2>1. CASE taskStatus[j] = "RUNNING"
    BY <1>5, <2>1, RetryOrFailMoves DEF RecordFailure
  <2>2. CASE taskStatus[j] # "RUNNING"
    BY <1>1, <1>5, <2>2 DEF RecordFailure, taskVars
  <2>. QED  BY <2>1, <2>2
<1>6. ASSUME NEW K \in SUBSET Tasks, RecoverExpiredLeases(K)  PROVE TaskMoves(k)
  BY <1>6, RetryOrFailMoves DEF RecoverExpiredLeases
<1>7. CASE UNCHANGED vars
  BY <1>1, <1>7 DEF vars, taskVars
<1>8. CASE CustomerStep
  BY <1>1, <1>2, <1>8 DEF CustomerStep, CreateTicket, BeginRequeue, CommitRequeue, AbortRequeue,
     taskVars
<1>9. CASE WorkerStep
  BY <1>1, <1>3, <1>4, <1>5, <1>6, <1>9 DEF WorkerStep, AttemptEnds, ApplyEnds, Submit,
     RejectSubmission, AnalysisFails, BeginApply, RefuseLateResult, RollbackApply, LoseAttempt, taskVars
<1>10. CASE ApprovalStep
  BY <1>1, <1>10 DEF ApprovalStep, BeginDecision, CommitDecision, AbortDecision, AssignSupervisor,
     taskVars
<1>. QED
  BY <1>7, <1>8, <1>9, <1>10 DEF Next

\* A recommendation is applied only while its ticket still awaits that task.
THEOREM ResultsAreCurrent == Spec => AppliedToItsVersion
<1>1. ASSUME ServiceInv, [Next]_vars, NEW k \in Tasks,
             taskStatus[k] # "SUCCEEDED", taskStatus'[k] = "SUCCEEDED"
      PROVE  TicketAwaits(k)
  <2>1. TypeOK /\ TaskRowsAgree
    BY <1>1 DEF ServiceInv, RowsAndLocksAgree
  <2>2. CommitResult(k)
    BY <1>1, <2>1, StepMovesTasks DEF TaskMoves
  <2>. QED  BY <1>1, <2>2, CommittedResultIsAwaited
<1>2. ServiceInv /\ [Next]_vars =>
         [\A k \in Tasks : taskStatus[k] # "SUCCEEDED" /\ taskStatus'[k] = "SUCCEEDED"
                              => TicketAwaits(k)]_vars
  BY <1>1
<1>. QED
  BY <1>2, InvariantHolds, PTL DEF Spec, AppliedToItsVersion

\* A task that ended never changes again.
THEOREM EndedTasksStay == Spec => TerminalTaskIsFinal
<1>1. ServiceInv /\ [Next]_vars =>
         [\A k \in Tasks : taskStatus[k] \in TerminalStatuses => taskStatus'[k] = taskStatus[k]]_vars
  BY StepMovesTasks DEF ServiceInv, RowsAndLocksAgree, TaskMoves, TerminalStatuses
<1>. QED
  BY <1>1, InvariantHolds, PTL DEF Spec, TerminalTaskIsFinal

\* AttemptsAreBounded made inductive: a row that does not exist has no attempts.
AttemptsInv ==
    AttemptsAreBounded /\ \A k \in Tasks : taskStatus[k] = "absent" => attemptCount[k] = 0

\* No task ever uses more than MaxAttempts attempts, and a PENDING task has one left.
THEOREM AttemptsStayBounded == Spec => []AttemptsAreBounded
<1>1. Init => AttemptsInv
  BY MaxAttemptsAssumption DEF Init, TaskInit, AttemptsInv, AttemptsAreBounded
<1>2. ServiceInv /\ AttemptsInv /\ [Next]_vars => AttemptsInv'
  <2>. SUFFICES ASSUME ServiceInv, AttemptsInv, [Next]_vars, NEW k \in Tasks
                PROVE  /\ attemptCount'[k] <= MaxAttempts
                       /\ taskStatus'[k] = "PENDING" => attemptCount'[k] < MaxAttempts
                       /\ taskStatus'[k] = "absent" => attemptCount'[k] = 0
    BY DEF AttemptsInv, AttemptsAreBounded
  <2>1. TaskMoves(k) /\ attemptCount[k] \in Nat
    BY StepMovesTasks DEF ServiceInv, RowsAndLocksAgree, TypeOK, TaskTypeOK
  <2>. QED
    BY <2>1, MaxAttemptsAssumption DEF AttemptsInv, AttemptsAreBounded, TaskMoves
<1>3. AttemptsInv => AttemptsAreBounded
  BY DEF AttemptsInv
<1>. QED
  BY <1>1, <1>2, <1>3, InvariantHolds, PTL DEF Spec

-----------------------------------------------------------------------------
(* One open approval per type.                                             *)

\* No version of a ticket ever decreases.
LEMMA VersionsGrow ==
    ASSUME ServiceInv, [Next]_vars, NEW t \in Tickets
    PROVE  ticketVersion'[t] >= ticketVersion[t]
<1>1. ticketVersion[t] \in Nat /\ ticketVersion[t] + 1 >= ticketVersion[t]
  BY DEF ServiceInv, TypeOK, TicketTypeOK
<1>2. CASE UNCHANGED ticketVersion
  BY <1>1, <1>2
<1>3. ASSUME NEW T, NEW next, MoveTickets(T, next)  PROVE ticketVersion'[t] >= ticketVersion[t]
  BY <1>1, <1>3 DEF MoveTickets
<1>4. ASSUME NEW u \in Tickets, NEW k \in Tasks, CreateTicket(u, k)
      PROVE  ticketVersion'[t] >= ticketVersion[t]
  <2>1. ticketVersion[u] = 0 /\ ticketVersion' = [ticketVersion EXCEPT ![u] = 1]
    BY <1>4 DEF CreateTicket, ServiceInv, RowsAndLocksAgree, TaskRowsAgree
  <2>. QED  BY <1>1, <2>1 DEF ServiceInv, TypeOK, TicketTypeOK
<1>5. CASE UNCHANGED vars
  BY <1>2, <1>5 DEF vars, ticketVars
<1>6. CASE CustomerStep
  BY <1>2, <1>3, <1>4, <1>6 DEF CustomerStep, BeginRequeue, CommitRequeue, AbortRequeue, UpdateTicket,
     ticketVars
<1>7. CASE WorkerStep
  <2>1. ASSUME NEW k \in Tasks, ApplyEnds(k)  PROVE ticketVersion'[t] >= ticketVersion[t]
    BY <1>2, <1>3, <2>1 DEF ApplyEnds, CommitStaleResult, CommitResult, RollbackApply, UpdateTicket,
       ticketVars
  <2>2. ASSUME NEW K, RecoverExpiredLeases(K)  PROVE ticketVersion'[t] >= ticketVersion[t]
    BY <1>3, <2>2 DEF RecoverExpiredLeases, RetryOrFail
  <2>3. ASSUME NEW k, NEW n, RecordFailure(k, n)  PROVE ticketVersion'[t] >= ticketVersion[t]
    BY <1>2, <1>3, <2>3 DEF RecordFailure, RetryOrFail, ticketVars
  <2>. QED
    BY <1>2, <1>7, <2>1, <2>2, <2>3 DEF WorkerStep, AttemptEnds, Claim, Submit, RejectSubmission,
       AnalysisFails, BeginApply, RefuseLateResult, LoseAttempt, ticketVars
<1>8. CASE ApprovalStep
  BY <1>2, <1>3, <1>8 DEF ApprovalStep, BeginDecision, CommitDecision, AbortDecision,
     AssignSupervisor, UpdateTicket, ticketVars
<1>. QED  BY <1>5, <1>6, <1>7, <1>8 DEF Next

\* What a step may do to the status of a ticket: keep it, follow an edge of the
\* graph that does not end in AI_FAILED, or queue a new row.
TicketMoves(t) ==
    \/ ticketStatus'[t] = ticketStatus[t]
    \/ CanTransition(ticketStatus[t], ticketStatus'[t]) /\ ticketStatus'[t] # "AI_FAILED"
    \/ ticketStatus[t] = "absent" /\ ticketStatus'[t] = "AI_QUEUED"

\* A checked update follows an edge from the current status, not only from the
\* status that the transaction read.
LEMMA UpdateTicketMoves ==
    ASSUME ServiceInv, NEW snap \in TicketSnapshots, IsPast(snap), NEW next, next # "AI_FAILED",
           UpdateTicket(snap, next), NEW t \in Tickets
    PROVE  TicketMoves(t)
<1>1. CanTransition(ticketStatus[snap.ticket], next)
  BY DEF UpdateTicket, SnapshotIsCurrent, IsPast
<1>. QED  BY <1>1 DEF UpdateTicket, MoveTickets, TicketMoves

\* Failing tasks move only tickets that are AI_QUEUED.
LEMMA RetryOrFailMovesTickets ==
    ASSUME ServiceInv, NEW K, NEW retryable, RetryOrFail(K, retryable), NEW t \in Tickets
    PROVE  TicketMoves(t)
<1>1. CanTransition("AI_QUEUED", "HUMAN_REVIEW")
  BY DEF CanTransition, Transitions
<1>. QED  BY <1>1 DEF RetryOrFail, MoveTickets, TicketsToEscalate, TicketAwaits, TicketMoves

\* Every step moves tickets along the graph.
LEMMA StepMovesTickets ==
    ASSUME ServiceInv, [Next]_vars, NEW t \in Tickets
    PROVE  TicketMoves(t)
<1>1. CASE UNCHANGED ticketStatus
  BY <1>1 DEF TicketMoves
<1>2. CASE UNCHANGED vars
  BY <1>1, <1>2 DEF vars, ticketVars
<1>3. CASE CustomerStep
  <2>1. ASSUME NEW u \in Tickets, NEW k \in Tasks, CreateTicket(u, k)  PROVE TicketMoves(t)
    BY <2>1 DEF CreateTicket, TicketMoves, ServiceInv, TypeOK, TicketTypeOK
  <2>2. ASSUME NEW r \in Requests, NEW k \in Tasks, CommitRequeue(r, k)  PROVE TicketMoves(t)
    BY <2>2, UpdateTicketMoves DEF CommitRequeue, ServiceInv, TypeOK, SnapshotsArePast
  <2>. QED
    BY <1>1, <1>3, <2>1, <2>2 DEF CustomerStep, BeginRequeue, AbortRequeue, ticketVars
<1>4. CASE WorkerStep
  <2>1. ASSUME NEW k \in Tasks, ApplyEnds(k)  PROVE TicketMoves(t)
    <3>1. CASE RollbackApply(k)
      BY <1>1, <3>1 DEF RollbackApply, ticketVars
    <3>2. CASE CommitResult(k)
      <4>1. applyTxn[k].snap \in TicketSnapshots /\ IsPast(applyTxn[k].snap)
        BY <3>2 DEF CommitResult, ServiceInv, TypeOK, ApplyTxns, SnapshotsArePast
      <4>2. NextStatus(applyTxn[k].answer) # "AI_FAILED"
        BY DEF NextStatus
      <4>. QED  BY <3>2, <4>1, <4>2, UpdateTicketMoves DEF CommitResult
    <3>3. CASE CommitStaleResult(k)
      <4>1. IsPast(applyTxn[k].snap)
        BY <3>3 DEF CommitStaleResult, ServiceInv, SnapshotsArePast
      <4>2. CanTransition("AI_QUEUED", "HUMAN_REVIEW")
        BY DEF CanTransition, Transitions
      <4>. QED
        BY <3>3, <4>1, <4>2 DEF CommitStaleResult, IsPast, SnapshotIsCurrent, MoveTickets, TicketMoves,
           ticketVars
    <3>. QED  BY <2>1, <3>1, <3>2, <3>3 DEF ApplyEnds
  <2>2. ASSUME NEW K, RecoverExpiredLeases(K)  PROVE TicketMoves(t)
    BY <2>2, RetryOrFailMovesTickets DEF RecoverExpiredLeases
  <2>3. ASSUME NEW k, NEW n, RecordFailure(k, n)  PROVE TicketMoves(t)
    BY <1>1, <2>3, RetryOrFailMovesTickets DEF RecordFailure, ticketVars
  <2>. QED
    BY <1>1, <1>4, <2>1, <2>2, <2>3 DEF WorkerStep, AttemptEnds, Claim, Submit, RejectSubmission,
       AnalysisFails, BeginApply, RefuseLateResult, LoseAttempt, ticketVars
<1>5. CASE ApprovalStep
  <2>1. ASSUME NEW a \in Approvals, CommitDecision(a)  PROVE TicketMoves(t)
    <3>1. decisionTxn[a].snap \in TicketSnapshots /\ IsPast(decisionTxn[a].snap)
      BY <2>1 DEF CommitDecision, ServiceInv, TypeOK, DecisionTxns, SnapshotsArePast
    <3>. QED  BY <2>1, <3>1, UpdateTicketMoves DEF CommitDecision, TicketAfter
  <2>. QED
    BY <1>1, <1>5, <2>1 DEF ApprovalStep, BeginDecision, AbortDecision, AssignSupervisor, ticketVars
<1>. QED  BY <1>2, <1>3, <1>4, <1>5 DEF Next

\* No approval appears or disappears, moves to another ticket or opens again.
ApprovalsKept ==
    /\ UNCHANGED <<approvalType, approvalTicket>>
    /\ \A a \in Approvals :
          /\ approvalStatus'[a] = "absent" <=> approvalStatus[a] = "absent"
          /\ approvalStatus'[a] \in OpenStatuses => approvalStatus[a] \in OpenStatuses

\* The step of apply that inserts an approval of a type it found no open one of.
InsertsApproval(k, a, type) ==
    /\ CommitResult(k)
    /\ type \in WantedApprovals(applyTxn[k].answer, applyTxn[k].open)
    /\ InsertApproval(a, applyTxn[k].snap.ticket, type)

\* No other step opens an approval.
LEMMA StepMovesApprovals ==
    ASSUME ServiceInv, [Next]_vars
    PROVE  \/ ApprovalsKept
           \/ \E k \in Tasks, a \in Approvals, type \in ApprovalTypes : InsertsApproval(k, a, type)
<1>1. ASSUME UNCHANGED <<approvalStatus, approvalType, approvalTicket>>  PROVE ApprovalsKept
  BY <1>1 DEF ApprovalsKept
<1>2. ASSUME NEW k \in Tasks, CommitResult(k), ~UNCHANGED approvalVars
      PROVE  \E a \in Approvals, type \in ApprovalTypes : InsertsApproval(k, a, type)
  <2>1. PICK a \in Approvals, type \in WantedApprovals(applyTxn[k].answer, applyTxn[k].open) :
               InsertApproval(a, applyTxn[k].snap.ticket, type)
    BY <1>2 DEF CommitResult
  <2>2. type \in ApprovalTypes
    BY <2>1 DEF WantedApprovals, ApprovalTypes
  <2>. QED  BY <1>2, <2>1, <2>2 DEF InsertsApproval
<1>3. ASSUME NEW a \in Approvals, CommitDecision(a)  PROVE ApprovalsKept
  <2>1. approvalStatus[a] \in OpenStatuses
    BY <1>3 DEF CommitDecision, ServiceInv, RowsAndLocksAgree, ApprovalRowsAgree, MayDecide, OpenStatuses
  <2>2. DecidedStatus(decisionTxn[a].decision) # "absent"
    BY DEF DecidedStatus
  <2>. QED
    BY <1>3, <2>1, <2>2 DEF CommitDecision, DecideApproval, ApprovalsKept, OpenStatuses, ServiceInv,
       TypeOK, ApprovalTypeOK
<1>4. ASSUME NEW a \in Approvals, AssignSupervisor(a)  PROVE ApprovalsKept
  BY <1>4 DEF AssignSupervisor, DecideApproval, ApprovalsKept, OpenStatuses, ServiceInv, TypeOK,
     ApprovalTypeOK
<1>5. CASE UNCHANGED vars
  BY <1>1, <1>5 DEF vars, approvalVars
<1>6. CASE CustomerStep
  BY <1>1, <1>6 DEF CustomerStep, CreateTicket, BeginRequeue, CommitRequeue, AbortRequeue, approvalVars
<1>7. CASE WorkerStep
  <2>1. ASSUME NEW k \in Tasks, CommitResult(k)
        PROVE  \/ ApprovalsKept
               \/ \E a \in Approvals, type \in ApprovalTypes : InsertsApproval(k, a, type)
    BY <1>1, <1>2, <2>1 DEF approvalVars
  <2>2. ASSUME NEW k \in Tasks, CommitStaleResult(k) \/ RollbackApply(k)  PROVE ApprovalsKept
    BY <1>1, <2>2 DEF CommitStaleResult, RollbackApply, approvalVars
  <2>3. ASSUME NEW k, Claim(k) \/ RecoverExpiredLeases(k)  PROVE ApprovalsKept
    BY <1>1, <2>3 DEF Claim, RecoverExpiredLeases, approvalVars
  <2>4. ASSUME NEW k, NEW n, Submit(k, n) \/ RejectSubmission(k, n) \/ AttemptEnds(k, n)
                             \/ RecordFailure(k, n) \/ LoseAttempt(k, n)
        PROVE  ApprovalsKept
    BY <1>1, <2>4 DEF Submit, RejectSubmission, AttemptEnds, AnalysisFails, BeginApply, RefuseLateResult,
       RecordFailure, LoseAttempt, approvalVars
  <2>. QED
    BY <1>7, <2>1, <2>2, <2>3, <2>4 DEF WorkerStep, ApplyEnds
<1>8. CASE ApprovalStep
  BY <1>1, <1>3, <1>4, <1>8 DEF ApprovalStep, BeginDecision, AbortDecision, approvalVars
<1>. QED  BY <1>5, <1>6, <1>7, <1>8 DEF Next

\* A transaction open after the step was open before it, or has just begun.
LEMMA StepMovesApplies ==
    ASSUME ServiceInv, [Next]_vars, NEW k \in Tasks, applyTxn'[k] # NoTxn
    PROVE  \/ applyTxn'[k] = applyTxn[k]
           \/ /\ UNCHANGED <<ticketVars, approvalVars>> /\ taskTicket[k] \in Tickets
              /\ applyTxn'[k].snap = TicketSnapshot(taskTicket[k])
              /\ applyTxn'[k].open = OpenTypes(taskTicket[k])
<1>1. ASSUME NEW j \in Tasks, applyTxn' = [applyTxn EXCEPT ![j] = NoTxn]  PROVE applyTxn'[k] = applyTxn[k]
  BY <1>1 DEF ServiceInv, TypeOK
<1>2. ASSUME NEW j \in Tasks, NEW n \in Attempts, NEW answer \in Answers, BeginApply(j, n, answer)
      PROVE  \/ applyTxn'[k] = applyTxn[k]
             \/ /\ UNCHANGED <<ticketVars, approvalVars>> /\ taskTicket[k] \in Tickets
                /\ applyTxn'[k].snap = TicketSnapshot(taskTicket[k])
                /\ applyTxn'[k].open = OpenTypes(taskTicket[k])
  <2>1. CASE j = k
    <3>1. applyTxn'[k] = [snap |-> TicketSnapshot(taskTicket[k]), open |-> OpenTypes(taskTicket[k]),
                          attempt |-> n, answer |-> answer]
      BY <1>2, <2>1 DEF BeginApply, ServiceInv, TypeOK
    <3>2. taskTicket[k] \in Tickets
      BY <1>2, <2>1 DEF BeginApply, TaskAcceptsResult, ServiceInv, RowsAndLocksAgree, TaskRowsAgree
    <3>. QED  BY <1>2, <3>1, <3>2 DEF BeginApply
  <2>2. CASE j # k
    BY <1>2, <2>2 DEF BeginApply, ServiceInv, TypeOK
  <2>. QED  BY <2>1, <2>2
<1>3. CASE UNCHANGED vars
  BY <1>3 DEF vars, threadVars
<1>4. CASE CustomerStep
  BY <1>4 DEF CustomerStep, CreateTicket, BeginRequeue, CommitRequeue, AbortRequeue, threadVars
<1>5. CASE WorkerStep
  BY <1>1, <1>2, <1>5 DEF WorkerStep, AttemptEnds, ApplyEnds, Claim, Submit, RejectSubmission,
     AnalysisFails, RefuseLateResult, CommitStaleResult, CommitResult, RollbackApply, EndApply,
     RecordFailure, LoseAttempt, RecoverExpiredLeases, threadVars
<1>6. CASE ApprovalStep
  BY <1>6 DEF ApprovalStep, BeginDecision, CommitDecision, AbortDecision, AssignSupervisor, threadVars
<1>. QED  BY <1>3, <1>4, <1>5, <1>6 DEF Next

\* Transactions that may still commit keep knowing every open approval.
LEMMA KnownStaysKnown ==
    ASSUME ServiceInv, OpenApprovalsAreKnown, [Next]_vars
    PROVE  OpenApprovalsAreKnown'
<1>. SUFFICES ASSUME NEW k \in Tasks, applyTxn'[k] # NoTxn,
                     ticketVersion'[applyTxn'[k].snap.ticket] = applyTxn'[k].snap.version,
                     NEW a \in Approvals, approvalStatus'[a] \in OpenStatuses,
                     approvalTicket'[a] = applyTxn'[k].snap.ticket
              PROVE  approvalType'[a] \in applyTxn'[k].open
  BY DEF OpenApprovalsAreKnown, SnapshotIsCurrent, OpenTypes
<1>1. CASE applyTxn'[k] # applyTxn[k]
  <2>1. /\ UNCHANGED <<ticketVars, approvalVars>> /\ taskTicket[k] \in Tickets
        /\ applyTxn'[k].snap = TicketSnapshot(taskTicket[k])
        /\ applyTxn'[k].open = OpenTypes(taskTicket[k])
    BY <1>1, StepMovesApplies
  <2>2. approvalTicket[a] = taskTicket[k] /\ approvalStatus[a] \in OpenStatuses
    BY <2>1 DEF TicketSnapshot, approvalVars
  <2>3. approvalType[a] \in OpenTypes(taskTicket[k])
    BY <2>2 DEF OpenTypes
  <2>. QED  BY <2>1, <2>3 DEF approvalVars
<1>2. CASE applyTxn'[k] = applyTxn[k]
  <2>. DEFINE snap == applyTxn[k].snap
  <2>1. snap.ticket \in Tickets /\ snap.version \in Nat /\ IsPast(snap)
    BY <1>2 DEF ServiceInv, TypeOK, ApplyTxns, TicketSnapshots, SnapshotsArePast
  <2>2. ticketVersion[snap.ticket] \in Nat /\ ticketVersion'[snap.ticket] >= ticketVersion[snap.ticket]
    BY <2>1, VersionsGrow DEF ServiceInv, TypeOK, TicketTypeOK
  <2>3. ticketVersion[snap.ticket] = snap.version /\ ticketVersion'[snap.ticket] = ticketVersion[snap.ticket]
    BY <1>2, <2>1, <2>2 DEF IsPast
  <2>4. OpenTypes(snap.ticket) \subseteq applyTxn[k].open
    BY <1>2, <2>3 DEF OpenApprovalsAreKnown, SnapshotIsCurrent
  <2>5. CASE ApprovalsKept
    BY <1>2, <2>4, <2>5 DEF ApprovalsKept, OpenTypes
  <2>6. ASSUME NEW j \in Tasks, NEW b \in Approvals, NEW type \in ApprovalTypes, InsertsApproval(j, b, type)
        PROVE  approvalType'[a] \in applyTxn'[k].open
    <3>1. applyTxn[j].snap.ticket # snap.ticket
      BY <2>1, <2>2, <2>3, <2>6 DEF InsertsApproval, CommitResult, UpdateTicket, MoveTickets
    <3>2. a # b
      BY <1>2, <2>6, <3>1 DEF InsertsApproval, InsertApproval, ServiceInv, TypeOK, ApprovalTypeOK
    <3>3. /\ approvalStatus'[a] = approvalStatus[a] /\ approvalType'[a] = approvalType[a]
          /\ approvalTicket'[a] = approvalTicket[a]
      BY <2>6, <3>2 DEF InsertsApproval, InsertApproval, ServiceInv, TypeOK, ApprovalTypeOK
    <3>. QED  BY <1>2, <2>4, <3>3 DEF OpenTypes
  <2>. QED  BY <2>5, <2>6, StepMovesApprovals
<1>. QED  BY <1>1, <1>2

\* At most one approval of a type is ever open on a ticket.
THEOREM ApprovalsAreUnique == Spec => []OneOpenApprovalPerType
<1>. DEFINE Inv == OneOpenApprovalPerType /\ OpenApprovalsAreKnown
<1>1. Init => Inv
  BY DEF Init, TaskInit, ApprovalInit, OneOpenApprovalPerType, OpenApprovalsAreKnown, OpenStatuses
<1>2. ServiceInv /\ Inv /\ [Next]_vars => Inv'
  <2>. SUFFICES ASSUME ServiceInv, Inv, [Next]_vars
                PROVE  OneOpenApprovalPerType'
    BY KnownStaysKnown
  <2>1. CASE ApprovalsKept
    BY <2>1 DEF ApprovalsKept, OneOpenApprovalPerType
  <2>2. ASSUME NEW k \in Tasks, NEW c \in Approvals, NEW type \in ApprovalTypes, InsertsApproval(k, c, type)
        PROVE  OneOpenApprovalPerType'
    <3>1. /\ approvalType'[c] = type /\ approvalTicket'[c] = applyTxn[k].snap.ticket
          /\ \A b \in Approvals \ {c} : /\ approvalStatus'[b] = approvalStatus[b]
                                        /\ approvalType'[b] = approvalType[b]
                                        /\ approvalTicket'[b] = approvalTicket[b]
      BY <2>2 DEF InsertsApproval, InsertApproval, ServiceInv, TypeOK, ApprovalTypeOK
    <3>2. OpenTypes(applyTxn[k].snap.ticket) \subseteq applyTxn[k].open
      BY <2>2 DEF InsertsApproval, CommitResult, UpdateTicket, OpenApprovalsAreKnown
    <3>3. type \notin applyTxn[k].open
      BY <2>2 DEF InsertsApproval, WantedApprovals
    <3>4. \A b \in Approvals \ {c} : approvalStatus[b] \in OpenStatuses
             /\ approvalTicket[b] = applyTxn[k].snap.ticket => approvalType[b] # type
      BY <3>2, <3>3 DEF OpenTypes
    <3>. QED  BY <3>1, <3>4 DEF OneOpenApprovalPerType
  <2>. QED  BY <2>1, <2>2, StepMovesApprovals
<1>3. Inv => OneOpenApprovalPerType
  OBVIOUS
<1>. HIDE DEF Inv
<1>. QED
  BY <1>1, <1>2, <1>3, InvariantHolds, PTL DEF Spec

-----------------------------------------------------------------------------
(* One coupon per ticket.                                                  *)

CouponApproval(a) ==
    approvalStatus[a] # "absent" /\ approvalType[a] = "coupon_compensation"

\* A ticket that waits for the approval of a coupon can only be RESOLVED, so no
\* later round asks for another coupon, and only these approvals issue coupons.
CouponInv ==
    /\ \A a \in Approvals : CouponApproval(a) =>
          ticketStatus[approvalTicket[a]] \in {"PENDING_APPROVAL", "RESOLVED"}
    /\ \A a, b \in Approvals :
          CouponApproval(a) /\ CouponApproval(b) /\ approvalTicket[a] = approvalTicket[b] => a = b
    /\ \A a \in couponsIssued : CouponApproval(a)

\* Only an approval that may be approved as a coupon issues one.
LEMMA StepIssuesCoupons ==
    ASSUME ServiceInv, [Next]_vars, NEW a \in couponsIssued', a \notin couponsIssued
    PROVE  a \in Approvals /\ CouponApproval(a)
<1>1. CASE couponsIssued' = couponsIssued
  BY <1>1
<1>2. ASSUME NEW b \in Approvals, NEW decision \in Decisions, BeginDecision(b, decision)
      PROVE  a \in Approvals /\ CouponApproval(a)
  BY <1>2 DEF BeginDecision, MayDecide, CouponApproval
<1>3. CASE UNCHANGED vars
  BY <1>1, <1>3 DEF vars, approvalVars
<1>4. CASE CustomerStep
  BY <1>1, <1>4 DEF CustomerStep, CreateTicket, BeginRequeue, CommitRequeue, AbortRequeue, approvalVars
<1>5. CASE WorkerStep
  BY <1>1, <1>5 DEF WorkerStep, AttemptEnds, ApplyEnds, Claim, Submit, RejectSubmission, AnalysisFails,
     BeginApply, RefuseLateResult, CommitStaleResult, CommitResult, InsertApproval, RollbackApply,
     RecordFailure, LoseAttempt, RecoverExpiredLeases, approvalVars
<1>6. CASE ApprovalStep
  BY <1>1, <1>2, <1>6 DEF ApprovalStep, CommitDecision, AbortDecision, AssignSupervisor,
     DecideApproval, approvalVars
<1>. QED  BY <1>3, <1>4, <1>5, <1>6 DEF Next

\* A ticket that waits for a decision about a coupon is RESOLVED or goes on waiting.
LEMMA CouponTicketStays ==
    ASSUME ServiceInv, [Next]_vars, NEW t \in Tickets,
           ticketStatus[t] \in {"PENDING_APPROVAL", "RESOLVED"}
    PROVE  ticketStatus'[t] \in {"PENDING_APPROVAL", "RESOLVED"}
BY StepMovesTickets DEF TicketMoves, CanTransition, Transitions

\* An approval that a step inserts finds no coupon approval on its ticket.
LEMMA InsertKeepsCouponInv ==
    ASSUME ServiceInv, CouponInv, [Next]_vars, NEW k \in Tasks, NEW c \in Approvals,
           NEW type \in ApprovalTypes, InsertsApproval(k, c, type)
    PROVE  CouponInv'
<1>. DEFINE t == applyTxn[k].snap.ticket
<1>1. t \in Tickets /\ ticketStatus[t] = "AI_QUEUED"
  BY CommittedResultIsAwaited DEF InsertsApproval, TicketAwaits
<1>2. /\ approvalStatus[c] = "absent" /\ approvalType'[c] = type /\ approvalTicket'[c] = t
      /\ approvalStatus'[c] = "pending" /\ couponsIssued' = couponsIssued
      /\ \A b \in Approvals \ {c} : /\ approvalStatus'[b] = approvalStatus[b]
                                    /\ approvalType'[b] = approvalType[b]
                                    /\ approvalTicket'[b] = approvalTicket[b]
  BY DEF InsertsApproval, InsertApproval, ServiceInv, TypeOK, ApprovalTypeOK
<1>3. \A b \in Approvals : CouponApproval(b)' => CouponApproval(b) \/ b = c
  BY <1>2 DEF CouponApproval
<1>4. \A b \in Approvals : CouponApproval(b) =>
         b # c /\ approvalTicket[b] \in Tickets /\ approvalTicket[b] # t /\ CouponApproval(b)'
  BY <1>1, <1>2 DEF CouponApproval, CouponInv, ServiceInv, RowsAndLocksAgree, ApprovalRowsAgree
<1>5. type = "coupon_compensation" => ticketStatus'[t] = "PENDING_APPROVAL"
  <2>1. type = "coupon_compensation" => NextStatus(applyTxn[k].answer) = "PENDING_APPROVAL"
    BY DEF InsertsApproval, WantedApprovals, NextStatus
  <2>. QED  BY <1>1, <2>1 DEF InsertsApproval, CommitResult, UpdateTicket, MoveTickets
<1>6. \A b \in Approvals : CouponApproval(b)' =>
         ticketStatus'[approvalTicket'[b]] \in {"PENDING_APPROVAL", "RESOLVED"}
  <2>. SUFFICES ASSUME NEW b \in Approvals, CouponApproval(b)'
                PROVE  ticketStatus'[approvalTicket'[b]] \in {"PENDING_APPROVAL", "RESOLVED"}
    OBVIOUS
  <2>1. CASE b = c
    BY <1>2, <1>5, <2>1 DEF CouponApproval
  <2>2. CASE b # c
    BY <1>2, <1>3, <1>4, <2>2, CouponTicketStays DEF CouponInv
  <2>. QED  BY <2>1, <2>2
<1>7. \A a, b \in Approvals :
         CouponApproval(a)' /\ CouponApproval(b)' /\ approvalTicket'[a] = approvalTicket'[b] => a = b
  BY <1>2, <1>3, <1>4 DEF CouponInv
<1>8. \A a \in couponsIssued' : CouponApproval(a)'
  BY <1>2, <1>4 DEF CouponInv, ServiceInv, TypeOK, ApprovalTypeOK
<1>. QED  BY <1>6, <1>7, <1>8 DEF CouponInv

\* Over all its rounds a ticket never gets two coupons.
THEOREM CouponsAreUnique == Spec => []OneCouponPerTicket
<1>1. Init => CouponInv
  BY DEF Init, ApprovalInit, CouponInv, CouponApproval
<1>2. ServiceInv /\ CouponInv /\ [Next]_vars => CouponInv'
  <2>. SUFFICES ASSUME ServiceInv, CouponInv, [Next]_vars  PROVE CouponInv'
    OBVIOUS
  <2>1. CASE ApprovalsKept
    <3>1. \A a \in Approvals : CouponApproval(a)' <=> CouponApproval(a)
      BY <2>1 DEF ApprovalsKept, CouponApproval
    <3>2. \A a \in Approvals : CouponApproval(a) => approvalTicket[a] \in Tickets
      BY DEF CouponApproval, ServiceInv, RowsAndLocksAgree, ApprovalRowsAgree
    <3>3. \A a \in couponsIssued' : a \in Approvals /\ CouponApproval(a)
      BY StepIssuesCoupons DEF CouponInv, ServiceInv, TypeOK, ApprovalTypeOK
    <3>. QED
      BY <2>1, <3>1, <3>2, <3>3, CouponTicketStays DEF ApprovalsKept, CouponInv
  <2>. QED  BY <2>1, InsertKeepsCouponInv, StepMovesApprovals
<1>3. ServiceInv /\ CouponInv => OneCouponPerTicket
  BY DEF CouponInv, OneCouponPerTicket, ServiceInv, TypeOK, ApprovalTypeOK
<1>. QED
  BY <1>1, <1>2, <1>3, InvariantHolds, PTL DEF Spec

=============================================================================
