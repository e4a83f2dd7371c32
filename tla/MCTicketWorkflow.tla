-------------------------- MODULE MCTicketWorkflow --------------------------
(* Tickets for TLC.  The first message has no attachment and mentions no   *)
(* delivery.                                                               *)
EXTENDS TicketWorkflow

Ticket(text, tracking, completed, rag, model) ==
    [text |-> text, delivery |-> FALSE, messages |-> 1, attached |-> FALSE,
     tracking |-> tracking, completed |-> completed, rag |-> rag, model |-> model]

\* The rules on a late parcel whose order agrees or not, on one under way, on a
\* refund, and on the two kinds that are not investigated; and a model on a
\* parcel under way, which may ask the customer whenever it likes.
Tickets ==
    {Ticket("delivery_delay_compensation", "late", c, r, FALSE) : c, r \in BOOLEAN}
    \cup {Ticket("delivery_delay_compensation", "moving", FALSE, FALSE, m) : m \in BOOLEAN}
    \cup {Ticket("refund_risk_review", "late", TRUE, TRUE, FALSE),
          Ticket("logistics_query", "moving", FALSE, FALSE, FALSE),
          Ticket("other", "moving", FALSE, FALSE, FALSE)}

\* Two failures, and one where a model multiplies the turns.
Faults == [model \in BOOLEAN |-> IF model THEN 1 ELSE 2]
=============================================================================
