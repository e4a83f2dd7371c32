--------------------------- MODULE TicketLifecycle ---------------------------
(***************************************************************************)
(* What the business service promises about a ticket, without tasks,       *)
(* attempts, transactions or crashes: a ticket alternates between the AI,  *)
(* the customer and people until it is resolved, and money is granted, at  *)
(* most once, in the step that resolves it.                                *)
(***************************************************************************)
CONSTANT Tickets

VARIABLES phase,   \* who the ticket waits for
          granted  \* what was granted when it was resolved

vars == <<phase, granted>>

Phases == {"absent", "ai", "customer", "people", "resolved"}
Grants == {"nothing", "coupon", "refund"}

TypeOK == phase \in [Tickets -> Phases] /\ granted \in [Tickets -> Grants]

Init ==
    /\ phase = [t \in Tickets |-> "absent"]
    /\ granted = [t \in Tickets |-> "nothing"]

MoveTo(t, next) == phase' = [phase EXCEPT ![t] = next] /\ UNCHANGED granted

\* A customer opens a ticket, or answers when asked.
AskAi(t) == phase[t] \in {"absent", "customer"} /\ MoveTo(t, "ai")

\* The AI's answer, or its failure, ends the round.
RoundEnds(t) ==
    /\ phase[t] = "ai"
    /\ \E next \in {"customer", "people", "resolved"} : MoveTo(t, next)

\* Rounds of several tickets may end in one recovery transaction.
RoundsFail(T) ==
    /\ T # {} /\ \A t \in T : phase[t] = "ai"
    /\ phase' = [t \in Tickets |-> IF t \in T THEN "people" ELSE phase[t]]
    /\ UNCHANGED granted

\* A person decides; the approval of an earlier round may still be open while the
\* ticket is with the AI again.
Decide(t) ==
    /\ phase[t] \in {"ai", "people"}
    /\ phase' = [phase EXCEPT ![t] = "resolved"]
    /\ \E grant \in Grants : granted' = [granted EXCEPT ![t] = grant]

AskCustomer(t) == phase[t] \in {"ai", "people"} /\ MoveTo(t, "customer")

Next ==
    \/ \E t \in Tickets : AskAi(t) \/ RoundEnds(t) \/ Decide(t) \/ AskCustomer(t)
    \/ \E T \in SUBSET Tickets : RoundsFail(T)

\* What may never happen, whatever is fair.
Safety == Init /\ [][Next]_vars

\* The AI's rounds end; people and customers may take for ever.
Spec == Safety /\ \A t \in Tickets : WF_vars(RoundEnds(t))

\* What the customer may rely on: a resolved ticket is never reopened, and what it was
\* granted is neither withdrawn nor granted again.
GrantIsFinal ==
    [][\A t \in Tickets : phase[t] = "resolved" => UNCHANGED <<phase[t], granted[t]>>]_vars

=============================================================================
