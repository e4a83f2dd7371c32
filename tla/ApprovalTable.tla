---------------------------- MODULE ApprovalTable ----------------------------
(***************************************************************************)
(* The rows of tables approval_tasks and business_action_executions        *)
(* (domain/ApprovalTask.java, domain/BusinessActionExecution.java) and the *)
(* coupon gateway behind action/BusinessActionGateway.java.                *)
(***************************************************************************)
EXTENDS TicketTable

CONSTANT Approvals      \* identities of approval tasks that may be created

VARIABLES approvalStatus,  \* "absent" while no row exists
          approvalType,
          approvalTicket,
          execution,       \* status of the approval's execution row, or "none"
          couponsIssued    \* approvals whose key the gateway has accepted

approvalVars == <<approvalStatus, approvalType, approvalTicket, execution, couponsIssued>>

ApprovalTypes == {"coupon_compensation", "refund_review"}
OpenStatuses == {"pending", "in_review"}
ApprovalStatuses == {"absent", "approved", "rejected"} \cup OpenStatuses

ApprovalTypeOK ==
    /\ approvalStatus \in [Approvals -> ApprovalStatuses]
    /\ approvalType \in [Approvals -> ApprovalTypes \cup {"none"}]
    /\ approvalTicket \in [Approvals -> Tickets \cup {NoTicket}]
    /\ execution \in [Approvals -> {"none", "succeeded", "manual_required"}]
    /\ couponsIssued \in SUBSET Approvals

ApprovalInit ==
    /\ approvalStatus = [a \in Approvals |-> "absent"]
    /\ approvalType = [a \in Approvals |-> "none"]
    /\ approvalTicket = [a \in Approvals |-> NoTicket]
    /\ execution = [a \in Approvals |-> "none"]
    /\ couponsIssued = {}

\* ApprovalTaskRepository.existsByTicketIdAndTaskTypeAndStatusIn, for every type.
OpenTypes(t) == {approvalType[a] : a \in {b \in Approvals :
                    approvalTicket[b] = t /\ approvalStatus[b] \in OpenStatuses}}

InsertApproval(a, t, type) ==
    /\ approvalStatus[a] = "absent"
    /\ approvalStatus' = [approvalStatus EXCEPT ![a] = "pending"]
    /\ approvalType' = [approvalType EXCEPT ![a] = type]
    /\ approvalTicket' = [approvalTicket EXCEPT ![a] = t]
    /\ UNCHANGED <<execution, couponsIssued>>

\* The decision and the execution row are written in the same transaction.
DecideApproval(a, status, executed) ==
    /\ approvalStatus' = [approvalStatus EXCEPT ![a] = status]
    /\ execution' = [execution EXCEPT ![a] = executed]
    /\ UNCHANGED <<approvalType, approvalTicket, couponsIssued>>

=============================================================================
