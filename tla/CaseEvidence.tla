---------------------------- MODULE CaseEvidence ----------------------------
(***************************************************************************)
(* Planning and evidence gate of the specialist agents                     *)
(* (backend/app/services/case_investigation.py): what an investigation has *)
(* found, which evidence is missing, how the gate disposes of the case and *)
(* which action the specialist may take next.  Both orchestrators use it.  *)
(***************************************************************************)
EXTENDS Integers

CONSTANTS MaxSteps,     \* MAX_CASE_STEPS
          MaxSearches,  \* MAX_POLICY_SEARCHES
          Answers       \* bound on the intents and actions a model names

ASSUME BudgetAssumption == MaxSteps \in Nat \ {0} /\ MaxSearches \in Nat \ {0}

\* What the classifier makes of a ticket; two intents are investigated.
Intents == {"logistics_query", "delivery_delay_compensation", "refund_risk_review", "other"}
Investigated == {"delivery_delay_compensation", "refund_risk_review"}
Scenarios == {"refund", "delivery_delay"}
Scenario(i) == IF i = "delivery_delay_compensation" THEN "delivery_delay" ELSE "refund"

\* A case: text is the intent the rules see, delivery whether the text mentions
\* one, tracking what the events show of the parcel, completed whether the
\* order's own status says it arrived, rag and model whether retrieval and a
\* language model are configured.
CaseRecords == [text : Intents, delivery : BOOLEAN, messages : Nat, attached : BOOLEAN,
                tracking : {"none", "moving", "on_time", "late"}, completed : BOOLEAN,
                rag : BOOLEAN, model : BOOLEAN]

\* A model that cannot be reached or gives no intent falls back to the rules; an
\* answer that is empty or without content (ValueError, AttributeError) does not.
Classifications(c) == {c.text} \cup {i \in Intents \cap Answers : c.model}

\* A parcel that has not arrived is compared with the current time.
Late(c, promisePassed) ==
    c.tracking = "late" \/ (c.tracking \in {"none", "moving"} /\ promisePassed)

Actions == {"get_order", "analyze_delivery_timeline", "search_policy",
            "get_ticket_messages", "inspect_customer_evidence", "ask_customer", "finish"}
Slots == {"order", "conversation", "logistics", "policy", "evidence_status", "evidence"}
Dispositions == {"continue", "waiting_customer", "ready", "budget_exhausted"}

\* The part of the observation history that the gate reads: the latest result
\* of each tool, the number of searches, and whether any source was retained.
\* A count of -1 stands for a conversation or attachments not read so far.
Unread == -1
Findings == [order : BOOLEAN, timeline : BOOLEAN, conversation : {Unread} \cup Nat,
             attachments : {Unread} \cup Nat, attached : BOOLEAN,
             searches : Nat, sources : BOOLEAN]
NothingFound == [order |-> FALSE, timeline |-> FALSE, conversation |-> Unread,
                 attachments |-> Unread, attached |-> FALSE,
                 searches |-> 0, sources |-> FALSE]

\* What the gate is told of the case: messages counts the customer's messages
\* now, delivery says whether the text mentions one, rag is rag_enabled.
Contexts == [scenario : Scenarios, delivery : BOOLEAN, messages : Nat, rag : BOOLEAN]

\* The two further delivery checks (anomaly and SLA) lead to the same action as
\* "logistics" and hold once it does, so they are folded into it.
MissingSlots(c, f) ==
    {s \in Slots :
        \/ s = "order" /\ ~ f.order
        \/ s = "conversation" /\ f.conversation # c.messages
        \/ s = "logistics" /\ (c.scenario = "delivery_delay" \/ c.delivery) /\ ~ f.timeline
        \/ s = "policy" /\ (f.searches = 0 \/ (c.rag /\ ~ f.sources))
        \/ s = "evidence_status" /\ c.scenario = "refund" /\ f.attachments # c.messages
        \/ s = "evidence" /\ c.scenario = "refund" /\ ~ f.attached}

Gates == [disposition : Dispositions, missing : SUBSET Slots]

\* A variant that allows one search too many.
SearchesExceeded(c, f) == c.rag /\ ~ f.sources /\ f.searches > MaxSearches

SearchesExhausted(c, f) == c.rag /\ ~ f.sources /\ f.searches >= MaxSearches

EvaluateEvidence(c, f, question, step) ==
    LET missing == MissingSlots(c, f) IN
    [missing |-> missing,
     disposition |->
        IF question THEN "waiting_customer"
        ELSE IF SearchesExhausted(c, f) THEN "budget_exhausted"
        ELSE IF missing = {} THEN "ready"
        ELSE IF step >= MaxSteps THEN "budget_exhausted"
        ELSE "continue"]

\* A variant that asks the customer before it looks at the attachments.
AskWithoutInspection(missing) ==
    IF "order" \in missing THEN "get_order"
    ELSE IF "conversation" \in missing THEN "get_ticket_messages"
    ELSE IF "logistics" \in missing THEN "analyze_delivery_timeline"
    ELSE IF "policy" \in missing THEN "search_policy"
    ELSE IF "evidence" \in missing THEN "ask_customer"
    ELSE "finish"

\* The offline plan: the first missing slot decides.
Fallback(missing) ==
    IF "order" \in missing THEN "get_order"
    ELSE IF "conversation" \in missing THEN "get_ticket_messages"
    ELSE IF "logistics" \in missing THEN "analyze_delivery_timeline"
    ELSE IF "policy" \in missing THEN "search_policy"
    ELSE IF "evidence_status" \in missing THEN "inspect_customer_evidence"
    ELSE IF "evidence" \in missing THEN "ask_customer"
    ELSE "finish"

\* Actions the specialist may end up with: a model may name any of them, but a
\* search beyond the limit and a failure that the specialist catches (HTTP, key,
\* type, value and JSON errors) fall back.  Other errors leave the agent.
ChooseCaseAction(f, gate, step, model) ==
    IF gate.disposition \in {"ready", "budget_exhausted"} \/ step >= MaxSteps
    THEN {"finish"}
    ELSE {Fallback(gate.missing)} \cup
         {a \in Actions \cap Answers : model /\ (a = "search_policy" => f.searches < MaxSearches)}
=============================================================================
