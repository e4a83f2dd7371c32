------------------------ MODULE TicketLifecycleProofs ------------------------
(***************************************************************************)
(* BusinessService implements TicketLifecycle: every step of its threads,  *)
(* requests and transactions is one step of the lifecycle or a stutter.    *)
(***************************************************************************)
EXTENDS BusinessServiceProofs

\* No row is committed in NEW or AI_FAILED: intake queues the ticket in the
\* transaction that inserts it, and an AI failure moves on to HUMAN_REVIEW in the
\* transaction that records it.
NoTransientStatus == \A t \in Tickets : ticketStatus[t] \notin {"NEW", "AI_FAILED"}

LifecycleInv == ServiceInv /\ NoTransientStatus

\* The tickets of T, and no others, get the status.
Moves(T, status) ==
    ticketStatus' = [t \in Tickets |-> IF t \in T THEN status ELSE ticketStatus[t]]

\* What every ticket was granted stays the same.
GrantsStay == [t \in Tickets |-> Granted(t)]' = [t \in Tickets |-> Granted(t)]

-----------------------------------------------------------------------------
(* The ingredients of a step.                                              *)

\* Moving one ticket moves its phase.
LEMMA OnePhaseMoves ==
    ASSUME NEW t \in Tickets, NEW status, Moves({t}, status)
    PROVE  [u \in Tickets |-> PhaseOf(ticketStatus[u])]'
               = [[u \in Tickets |-> PhaseOf(ticketStatus[u])] EXCEPT ![t] = PhaseOf(status)]
BY DEF Moves

\* Without a grant, that is a move of the lifecycle.
LEMMA OneTicketMoves ==
    ASSUME NEW t \in Tickets, NEW status, Moves({t}, status), GrantsStay
    PROVE  Lifecycle!MoveTo(t, PhaseOf(status))
BY OnePhaseMoves DEF GrantsStay, Lifecycle!MoveTo

\* A step that moves no ticket and grants nothing is a stutter.
LEMMA NothingMoves ==
    ASSUME UNCHANGED ticketStatus, GrantsStay
    PROVE  [Lifecycle!Next]_Lifecycle!vars
BY DEF GrantsStay, Lifecycle!vars

\* A grant depends only on the approvals that have an execution row.
LEMMA GrantsDependOnExecutions ==
    ASSUME \A a \in Approvals :
              /\ execution'[a] = execution[a]
              /\ execution[a] # "none" => approvalTicket'[a] = approvalTicket[a]
    PROVE  GrantsStay
<1>1. ASSUME NEW t \in Tickets, NEW status \in {"succeeded", "manual_required"}
      PROVE  HasExecution(t, status)' <=> HasExecution(t, status)
  BY DEF HasExecution
<1>2. ASSUME NEW t \in Tickets  PROVE Granted(t)' = Granted(t)
  BY <1>1 DEF Granted
<1>. QED  BY <1>2 DEF GrantsStay

\* Inserting an approval grants nothing.
LEMMA InsertGrantsNothing ==
    ASSUME ServiceInv, NEW a \in Approvals, NEW t, NEW type, InsertApproval(a, t, type)
    PROVE  GrantsStay
<1>1. execution[a] = "none"
  BY DEF InsertApproval, ServiceInv, MoneyMovesOnce
<1>. QED
  BY <1>1, GrantsDependOnExecutions DEF InsertApproval, ServiceInv, TypeOK, ApprovalTypeOK

\* A decision changes the execution of one approval, and the grant of its ticket.
LEMMA OneExecutionChanges ==
    ASSUME NEW a \in Approvals, NEW u, u # approvalTicket[a], UNCHANGED approvalTicket,
           \A b \in Approvals \ {a} : execution'[b] = execution[b]
    PROVE  Granted(u)' = Granted(u)
<1>1. ASSUME NEW status  PROVE HasExecution(u, status)' <=> HasExecution(u, status)
  BY DEF HasExecution
<1>. QED  BY <1>1 DEF Granted

\* People decide about tickets that are with the AI or with people.
LEMMA DecisionFacts ==
    ASSUME NEW from, NEW to \in {"RESOLVED", "WAITING_CUSTOMER"}, CanTransition(from, to)
    PROVE  PhaseOf(from) \in {"ai", "people"}
BY DEF CanTransition, Transitions, PhaseOf

\* A ticket that a current snapshot shows is where the snapshot says.
LEMMA CurrentSnapshotTells ==
    ASSUME NEW snap \in TicketSnapshots, IsPast(snap), SnapshotIsCurrent(snap)
    PROVE  ticketStatus[snap.ticket] = snap.status
BY DEF IsPast, SnapshotIsCurrent

-----------------------------------------------------------------------------
(* The steps that move tickets.                                            *)

\* Intake asks the AI.
LEMMA CreateTicketAsks ==
    ASSUME LifecycleInv, NEW t \in Tickets, NEW k \in Tasks, CreateTicket(t, k)
    PROVE  [Lifecycle!Next]_Lifecycle!vars
<1>1. Moves({t}, "AI_QUEUED")
  BY DEF CreateTicket, Moves, LifecycleInv, ServiceInv, TypeOK, TicketTypeOK
<1>2. GrantsStay
  BY GrantsDependOnExecutions DEF CreateTicket, approvalVars
<1>3. Lifecycle!MoveTo(t, "ai")
  BY <1>1, <1>2, OneTicketMoves DEF PhaseOf
<1>. QED
  BY <1>3 DEF CreateTicket, PhaseOf, Lifecycle!Next, Lifecycle!AskAi

\* So does a requeued request: the ticket it read was waiting for the customer.
LEMMA CommitRequeueAsks ==
    ASSUME LifecycleInv, NEW r \in Requests, NEW k \in Tasks, CommitRequeue(r, k)
    PROVE  [Lifecycle!Next]_Lifecycle!vars
<1>. DEFINE snap == requeueTxn[r]
            t == snap.ticket
<1>1. snap \in TicketSnapshots /\ IsPast(snap) /\ t \in Tickets
  BY DEF CommitRequeue, LifecycleInv, ServiceInv, TypeOK, SnapshotsArePast, TicketSnapshots
<1>2. ticketStatus[t] = snap.status
  BY <1>1, CurrentSnapshotTells DEF CommitRequeue, UpdateTicket
<1>3. ticketStatus[t] = "WAITING_CUSTOMER"
  BY <1>1, <1>2, QueueFacts DEF CommitRequeue, UpdateTicket, LifecycleInv, NoTransientStatus
<1>4. Moves({t}, "AI_QUEUED")
  BY DEF CommitRequeue, UpdateTicket, MoveTickets, Moves
<1>5. GrantsStay
  BY GrantsDependOnExecutions DEF CommitRequeue, approvalVars
<1>6. Lifecycle!MoveTo(t, "ai")
  BY <1>1, <1>4, <1>5, OneTicketMoves DEF PhaseOf
<1>. QED
  BY <1>1, <1>3, <1>6 DEF PhaseOf, Lifecycle!Next, Lifecycle!AskAi

\* An answer that is applied ends the round.
LEMMA CommitResultEndsRound ==
    ASSUME LifecycleInv, NEW k \in Tasks, CommitResult(k)
    PROVE  [Lifecycle!Next]_Lifecycle!vars
<1>. DEFINE t == applyTxn[k].snap.ticket
            status == NextStatus(applyTxn[k].answer)
<1>1. t \in Tickets /\ ticketStatus[t] = "AI_QUEUED"
  BY CommittedResultIsAwaited DEF CommitResult, TicketAwaits, LifecycleInv, ServiceInv,
     RowsAndLocksAgree, TaskRowsAgree, TypeOK, TaskTypeOK
<1>2. Moves({t}, status)
  BY DEF CommitResult, UpdateTicket, MoveTickets, Moves
<1>3. GrantsStay
  BY GrantsDependOnExecutions, InsertGrantsNothing
  DEF CommitResult, approvalVars, LifecycleInv
<1>4. PhaseOf(status) \in {"customer", "people", "resolved"}
  BY DEF NextStatus, PhaseOf
<1>5. Lifecycle!MoveTo(t, PhaseOf(status))
  BY <1>1, <1>2, <1>3, OneTicketMoves
<1>6. PhaseOf(ticketStatus[t]) = "ai"
  BY <1>1 DEF PhaseOf
<1>. QED
  BY <1>1, <1>4, <1>5, <1>6 DEF Lifecycle!Next, Lifecycle!RoundEnds

\* So does an outdated one, when the ticket has been queued again.
LEMMA CommitStaleResultEndsRound ==
    ASSUME LifecycleInv, NEW k \in Tasks, CommitStaleResult(k)
    PROVE  [Lifecycle!Next]_Lifecycle!vars
<1>. DEFINE snap == applyTxn[k].snap
            t == snap.ticket
<1>1. GrantsStay
  BY GrantsDependOnExecutions DEF CommitStaleResult, approvalVars
<1>2. CASE snap.status = "AI_QUEUED"
  <2>1. snap \in TicketSnapshots /\ IsPast(snap) /\ t \in Tickets
    BY DEF CommitStaleResult, LifecycleInv, ServiceInv, TypeOK, ApplyTxns, SnapshotsArePast, TicketSnapshots
  <2>2. ticketStatus[t] = "AI_QUEUED"
    BY <1>2, <2>1, CurrentSnapshotTells DEF CommitStaleResult
  <2>3. Moves({t}, "HUMAN_REVIEW")
    BY <1>2 DEF CommitStaleResult, MoveTickets, Moves
  <2>4. Lifecycle!MoveTo(t, "people")
    BY <1>1, <2>1, <2>3, OneTicketMoves DEF PhaseOf
  <2>. QED
    BY <2>1, <2>2, <2>4 DEF PhaseOf, Lifecycle!Next, Lifecycle!RoundEnds
<1>3. CASE snap.status # "AI_QUEUED"
  BY <1>1, <1>3, NothingMoves DEF CommitStaleResult, ticketVars
<1>. QED  BY <1>2, <1>3

\* Tasks that fail for good, in one transaction, take all their tickets to people.
LEMMA RetryOrFailFailsRounds ==
    ASSUME LifecycleInv, NEW K \in SUBSET Tasks, \A k \in K : taskStatus[k] = "RUNNING",
           NEW retryable, RetryOrFail(K, retryable), UNCHANGED approvalVars
    PROVE  [Lifecycle!Next]_Lifecycle!vars
<1>. DEFINE failed == {k \in K : ~ShouldRetry(attemptCount[k], retryable)}
            T == TicketsToEscalate(failed)
<1>1. \A t \in T : t \in Tickets /\ ticketStatus[t] = "AI_QUEUED"
  BY DEF TicketsToEscalate, TicketAwaits, LifecycleInv, ServiceInv, RowsAndLocksAgree, TaskRowsAgree
<1>2. GrantsStay
  BY GrantsDependOnExecutions DEF approvalVars
<1>3. Moves(T, "HUMAN_REVIEW")
  BY DEF RetryOrFail, MoveTickets, Moves
<1>. HIDE DEF T
<1>4. CASE T = {}
  <2>1. UNCHANGED ticketStatus
    BY <1>3, <1>4 DEF Moves, LifecycleInv, ServiceInv, TypeOK, TicketTypeOK
  <2>. QED  BY <1>2, <2>1, NothingMoves
<1>5. CASE T # {}
  <2>1. T \in SUBSET Tickets
    BY <1>1
  <2>2. \A t \in T : PhaseOf(ticketStatus[t]) = "ai"
    BY <1>1 DEF PhaseOf
  <2>3. [t \in Tickets |-> PhaseOf(ticketStatus[t])]'
           = [t \in Tickets |-> IF t \in T THEN "people" ELSE PhaseOf(ticketStatus[t])]
    <3>1. \A t \in Tickets : PhaseOf(ticketStatus[t])'
                               = IF t \in T THEN PhaseOf("HUMAN_REVIEW") ELSE PhaseOf(ticketStatus[t])
      BY <1>3 DEF Moves
    <3>2. PhaseOf("HUMAN_REVIEW") = "people"
      BY DEF PhaseOf
    <3>. QED  BY <3>1, <3>2
  <2>4. Lifecycle!RoundsFail(T)
    BY <1>2, <1>5, <2>1, <2>2, <2>3 DEF GrantsStay, Lifecycle!RoundsFail
  <2>. QED
    BY <2>1, <2>4 DEF Lifecycle!Next
<1>. QED  BY <1>4, <1>5

\* A decision resolves its ticket with what it grants, or asks the customer.
LEMMA CommitDecisionDecides ==
    ASSUME LifecycleInv, NEW a \in Approvals, CommitDecision(a)
    PROVE  [Lifecycle!Next]_Lifecycle!vars
<1>. DEFINE snap == decisionTxn[a].snap
            decision == decisionTxn[a].decision
<1>1. /\ snap \in TicketSnapshots /\ IsPast(snap)
      /\ snap.ticket \in Tickets /\ decision \in Decisions
  BY DEF CommitDecision, LifecycleInv, ServiceInv, TypeOK, DecisionTxns, SnapshotsArePast, TicketSnapshots
<1>. PICK t \in Tickets : t = snap.ticket
  BY <1>1
<1>2. t = approvalTicket[a] /\ MayDecide(a, decision)
  BY DEF CommitDecision, LifecycleInv, ServiceInv, RowsAndLocksAgree, ApprovalRowsAgree
<1>3. execution[a] = "none"
  BY <1>2 DEF MayDecide, OpenStatuses, LifecycleInv, ServiceInv, MoneyMovesOnce
<1>4. PhaseOf(ticketStatus[t]) \in {"ai", "people"}
  BY <1>1, CurrentSnapshotTells, DecisionFacts DEF CommitDecision, UpdateTicket, TicketAfter
<1>5. Moves({t}, TicketAfter(decision))
  BY DEF CommitDecision, UpdateTicket, MoveTickets, Moves
<1>6. execution' = [execution EXCEPT ![a] = ExecutionOf(decision)] /\ UNCHANGED approvalTicket
  BY DEF CommitDecision, DecideApproval
<1>7. CASE decision = "request_evidence"
  <2>1. GrantsStay
    BY <1>3, <1>6, <1>7, GrantsDependOnExecutions
    DEF ExecutionOf, LifecycleInv, ServiceInv, TypeOK, ApprovalTypeOK
  <2>2. Lifecycle!MoveTo(t, "customer")
    BY <1>1, <1>5, <1>7, <2>1, OneTicketMoves DEF TicketAfter, PhaseOf
  <2>. QED
    BY <1>1, <1>4, <2>2 DEF Lifecycle!Next, Lifecycle!AskCustomer
<1>8. CASE decision # "request_evidence"
  <2>1. \A u \in Tickets \ {t} : Granted(u)' = Granted(u)
    <3>1. \A b \in Approvals \ {a} : execution'[b] = execution[b]
      BY <1>6 DEF LifecycleInv, ServiceInv, TypeOK, ApprovalTypeOK
    <3>. QED  BY <1>2, <1>6, <3>1, OneExecutionChanges
  <2>2. Granted(t)' \in Lifecycle!Grants
    BY DEF Granted, Lifecycle!Grants
  <2>3. [u \in Tickets |-> Granted(u)]'
           = [[u \in Tickets |-> Granted(u)] EXCEPT ![t] = Granted(t)']
    BY <2>1
  <2>4. [u \in Tickets |-> PhaseOf(ticketStatus[u])]'
           = [[u \in Tickets |-> PhaseOf(ticketStatus[u])] EXCEPT ![t] = "resolved"]
    <3>1. TicketAfter(decision) = "RESOLVED" /\ PhaseOf("RESOLVED") = "resolved"
      BY <1>8 DEF TicketAfter, PhaseOf
    <3>2. Moves({t}, "RESOLVED")
      BY <1>5, <3>1
    <3>3. [u \in Tickets |-> PhaseOf(ticketStatus[u])]'
             = [[u \in Tickets |-> PhaseOf(ticketStatus[u])] EXCEPT ![t] = PhaseOf("RESOLVED")]
      BY <3>2, OnePhaseMoves
    <3>. QED  BY <3>1, <3>3
  <2>5. Lifecycle!Decide(t)
    BY <1>1, <1>4, <2>2, <2>3, <2>4 DEF Lifecycle!Decide
  <2>. QED
    BY <1>1, <2>5 DEF Lifecycle!Next
<1>. QED  BY <1>7, <1>8

-----------------------------------------------------------------------------
(* All steps.                                                              *)

\* Of customers' steps, intake and requeueing are visible to the lifecycle.
LEMMA CustomerImplements ==
    ASSUME LifecycleInv, CustomerStep
    PROVE  [Lifecycle!Next]_Lifecycle!vars
<1>1. ASSUME UNCHANGED <<ticketVars, approvalVars>>
      PROVE  [Lifecycle!Next]_Lifecycle!vars
  BY <1>1, NothingMoves, GrantsDependOnExecutions DEF ticketVars, approvalVars
<1>. QED
  BY <1>1, CreateTicketAsks, CommitRequeueAsks DEF CustomerStep, BeginRequeue, AbortRequeue

\* Of the workers' steps, the ends of rounds are.
LEMMA WorkerImplements ==
    ASSUME LifecycleInv, WorkerStep
    PROVE  [Lifecycle!Next]_Lifecycle!vars
<1>1. ASSUME UNCHANGED <<ticketVars, approvalVars>>
      PROVE  [Lifecycle!Next]_Lifecycle!vars
  BY <1>1, NothingMoves, GrantsDependOnExecutions DEF ticketVars, approvalVars
<1>2. ASSUME NEW k \in Tasks, Claim(k)  PROVE [Lifecycle!Next]_Lifecycle!vars
  BY <1>1, <1>2 DEF Claim
<1>3. ASSUME NEW k \in Tasks, ApplyEnds(k)  PROVE [Lifecycle!Next]_Lifecycle!vars
  BY <1>1, <1>3, CommitResultEndsRound, CommitStaleResultEndsRound DEF ApplyEnds, RollbackApply
<1>4. ASSUME NEW k \in Tasks, NEW n \in Attempts,
             Submit(k, n) \/ RejectSubmission(k, n) \/ AttemptEnds(k, n) \/ LoseAttempt(k, n)
      PROVE  [Lifecycle!Next]_Lifecycle!vars
  BY <1>1, <1>4 DEF Submit, RejectSubmission, AttemptEnds, AnalysisFails, BeginApply,
     RefuseLateResult, LoseAttempt
<1>5. ASSUME NEW k \in Tasks, NEW n \in Attempts, RecordFailure(k, n)
      PROVE  [Lifecycle!Next]_Lifecycle!vars
  <2>1. CASE taskStatus[k] = "RUNNING"
    BY <1>5, <2>1, RetryOrFailFailsRounds DEF RecordFailure
  <2>2. CASE taskStatus[k] # "RUNNING"
    BY <1>1, <1>5, <2>2 DEF RecordFailure
  <2>. QED  BY <2>1, <2>2
<1>6. ASSUME NEW K \in SUBSET Tasks, RecoverExpiredLeases(K)
      PROVE  [Lifecycle!Next]_Lifecycle!vars
  BY <1>6, RetryOrFailFailsRounds DEF RecoverExpiredLeases
<1>. QED
  BY <1>2, <1>3, <1>4, <1>5, <1>6 DEF WorkerStep

\* Of the steps of agents and supervisors, decisions that commit are.
LEMMA ApprovalImplements ==
    ASSUME LifecycleInv, ApprovalStep
    PROVE  [Lifecycle!Next]_Lifecycle!vars
<1>1. ASSUME UNCHANGED <<ticketVars, execution, approvalTicket>>
      PROVE  [Lifecycle!Next]_Lifecycle!vars
  BY <1>1, NothingMoves, GrantsDependOnExecutions DEF ticketVars
<1>2. ASSUME NEW a \in Approvals, AssignSupervisor(a)
      PROVE  [Lifecycle!Next]_Lifecycle!vars
  <2>1. UNCHANGED execution
    BY <1>2 DEF AssignSupervisor, DecideApproval, LifecycleInv, ServiceInv, TypeOK, ApprovalTypeOK
  <2>. QED
    BY <1>1, <1>2, <2>1 DEF AssignSupervisor, DecideApproval
<1>. QED
  BY <1>1, <1>2, CommitDecisionDecides DEF ApprovalStep, BeginDecision, AbortDecision, approvalVars

\* No transaction leaves a ticket in NEW or AI_FAILED.
LEMMA TransientStep ==
    ASSUME LifecycleInv, [Next]_vars
    PROVE  NoTransientStatus'
<1>1. ASSUME NEW t \in Tickets  PROVE ticketStatus'[t] \notin {"NEW", "AI_FAILED"}
  BY StepMovesTickets DEF TicketMoves, CanTransition, Transitions, LifecycleInv, NoTransientStatus
<1>. QED  BY <1>1 DEF NoTransientStatus

\* The invariant that the mapping needs.
LEMMA LifecycleInvHolds == Spec => []LifecycleInv
<1>1. Init => LifecycleInv
  BY InitInv DEF Init, TicketInit, LifecycleInv, NoTransientStatus
<1>2. LifecycleInv /\ [Next]_vars => LifecycleInv'
  BY StepInv, TransientStep DEF LifecycleInv
<1>. QED
  BY <1>1, <1>2, PTL DEF Spec

\* Each step maps to a step of the lifecycle or to a stutter.
LEMMA StepImplements ==
    ASSUME LifecycleInv, [Next]_vars
    PROVE  [Lifecycle!Next]_Lifecycle!vars
<1>1. ASSUME UNCHANGED vars  PROVE [Lifecycle!Next]_Lifecycle!vars
  BY <1>1, NothingMoves, GrantsDependOnExecutions DEF vars, ticketVars, approvalVars
<1>. QED
  BY <1>1, CustomerImplements, WorkerImplements, ApprovalImplements DEF Next

\* For any number of tickets, tasks, approvals and requests, each step of the
\* business service is a step of the lifecycle or invisible to it.
THEOREM ServiceFollowsLifecycle == Spec => FollowsLifecycle
<1>1. Init => Lifecycle!Init
  BY DEF Init, TicketInit, ApprovalInit, PhaseOf, Granted, HasExecution, Lifecycle!Init
<1>2. LifecycleInv /\ [Next]_vars => [Lifecycle!Next]_Lifecycle!vars
  BY StepImplements
<1>. QED
  BY <1>1, <1>2, LifecycleInvHolds, PTL DEF Spec, FollowsLifecycle, Lifecycle!Safety

\* What the lifecycle promises of each of its steps, the service keeps: a RESOLVED
\* ticket is final, and so is what was paid for it.
THEOREM GrantsAreFinal == Spec => Lifecycle!GrantIsFinal
<1>. DEFINE phase == [t \in Tickets |-> PhaseOf(ticketStatus[t])]
            granted == [t \in Tickets |-> Granted(t)]
<1>1. ASSUME [Lifecycle!Next]_Lifecycle!vars, NEW t \in Tickets, phase[t] = "resolved"
      PROVE  phase'[t] = phase[t] /\ granted'[t] = granted[t]
  <2>1. ASSUME NEW u \in Tickets, phase[u] # "resolved", NEW next,
               phase' = [phase EXCEPT ![u] = next],
               granted' = granted \/ \E grant : granted' = [granted EXCEPT ![u] = grant]
        PROVE  phase'[t] = phase[t] /\ granted'[t] = granted[t]
    BY <1>1, <2>1
  <2>. QED
    BY <1>1, <2>1 DEF Lifecycle!Next, Lifecycle!vars, Lifecycle!AskAi, Lifecycle!RoundEnds, Lifecycle!Decide,
       Lifecycle!AskCustomer, Lifecycle!RoundsFail, Lifecycle!MoveTo
<1>2. LifecycleInv /\ [Next]_vars =>
         [\A t \in Tickets : phase[t] = "resolved" => UNCHANGED <<phase[t], granted[t]>>]_Lifecycle!vars
  BY <1>1, StepImplements
<1>. QED
  BY <1>2, LifecycleInvHolds, PTL DEF Spec, Lifecycle!GrantIsFinal

=============================================================================
