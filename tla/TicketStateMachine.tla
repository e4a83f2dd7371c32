------------------------- MODULE TicketStateMachine -------------------------
(***************************************************************************)
(* The status graph of a ticket: domain/Ticket.java and TicketStatus.java. *)
(* No state of its own; the tables that keep tickets use these operators.  *)
(***************************************************************************)

\* The statuses the code ever writes.  TicketStatus also declares
\* AI_PROCESSING and CLOSED, which no statement assigns.
TicketStatuses == {"NEW", "AI_QUEUED", "AI_FAILED", "WAITING_CUSTOMER",
                   "PENDING_APPROVAL", "HUMAN_REVIEW", "RESOLVED"}

\* The edges of Ticket.transitionTo.
Transitions ==
    ({"NEW", "AI_FAILED", "WAITING_CUSTOMER"} \X {"AI_QUEUED"})
    \cup ({"AI_QUEUED"} \X {"RESOLVED", "PENDING_APPROVAL", "HUMAN_REVIEW",
                            "WAITING_CUSTOMER", "AI_FAILED"})
    \cup ({"AI_FAILED"} \X {"HUMAN_REVIEW"})
    \cup ({"PENDING_APPROVAL", "HUMAN_REVIEW"} \X {"RESOLVED"})
    \cup ({"HUMAN_REVIEW"} \X {"WAITING_CUSTOMER"})

\* transitionTo throws when this is false.
CanTransition(from, to) == <<from, to>> \in Transitions

\* Ticket.routeAiFailureToHumanReview makes two transitions in one call.
CanRouteToHumanReview(from) ==
    CanTransition(from, "AI_FAILED") /\ CanTransition("AI_FAILED", "HUMAN_REVIEW")

=============================================================================
