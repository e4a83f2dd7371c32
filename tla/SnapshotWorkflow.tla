-------------------------- MODULE SnapshotWorkflow --------------------------
(***************************************************************************)
(* The agent graph that analyses one immutable case snapshot               *)
(* (backend/app/services/snapshot_orchestrator.py).  A node of the graph is *)
(* an action; a model may steer the specialists, retrieval may find policy  *)
(* or not, and time passes while an analysis runs.                          *)
(***************************************************************************)
EXTENDS CaseEvidence

CONSTANTS Cases,           \* the snapshots analysed
          RecursionLimit,  \* graph steps LangGraph allows one invocation
          Undecided        \* no recommendation yet

Recommendations == {"QUERY_LOGISTICS", "REQUEST_COUPON_APPROVAL", "REQUEST_CUSTOMER_EVIDENCE",
                    "ESCALATE_REFUND_REVIEW", "ESCALATE_TO_HUMAN"}

ASSUME CasesAssumption == Cases \subseteq CaseRecords
ASSUME UndecidedAssumption == Undecided \notin Recommendations
\* Three nodes for each step of an investigation, and four around it.
ASSUME RecursionAssumption == RecursionLimit \in Nat /\ 3 * MaxSteps + 4 <= RecursionLimit

VARIABLES case,            \* the snapshot (payload)
          promisePassed,   \* the clock has passed promised_delivery_at
          node,            \* the graph's next node
          intent,          \* the supervisor's classification
          step, findings, gate, action, question,  \* the investigation
          facts,           \* commerce_facts, as far as decisions read it
          ran, trace,      \* agents in execution_trace, and its length
          recommendation   \* risk control's decision

investigation == <<step, findings, gate, action, question>>
vars == <<case, promisePassed, node, intent, investigation, facts, ran, trace, recommendation>>

Nodes == {"supervisor", "specialist", "case_action", "evidence_gate", "fast_commerce_skill",
          "refund_analyst", "risk_control", "reply", "end", "failed"}
Agents == {"supervisor", "logistics_resolution_agent", "refund_investigation_agent",
           "commerce_evidence_skill", "policy_retrieval_skill", "case_action_ask_customer",
           "evidence_gate", "refund_review_analyst", "risk_control", "reply"}
NoFacts == [event |-> FALSE, overdue |-> FALSE]
NoGate == [disposition |-> "continue", missing |-> {}]

\* The graph's state is well formed.
TypeOK ==
    /\ case \in Cases
    /\ promisePassed \in BOOLEAN
    /\ node \in Nodes
    /\ intent \in Intents
    /\ step \in Nat
    /\ findings \in Findings
    /\ gate \in Gates
    /\ action \in Actions
    /\ question \in BOOLEAN
    /\ facts \in [event : BOOLEAN, overdue : BOOLEAN]
    /\ ran \subseteq Agents
    /\ trace \in Nat
    /\ recommendation \in Recommendations \cup {Undecided}

Init ==
    /\ case \in Cases
    /\ promisePassed = FALSE
    /\ node = "supervisor"
    /\ intent = "other"
    /\ step = 0
    /\ findings = NothingFound
    /\ gate = NoGate
    /\ action = "finish"
    /\ question = FALSE
    /\ facts = NoFacts
    /\ ran = {}
    /\ trace = 0
    /\ recommendation = Undecided

-----------------------------------------------------------------------------
Specialist(i) == IF i = "delivery_delay_compensation"
                 THEN "logistics_resolution_agent" ELSE "refund_investigation_agent"
Context(i) == [scenario |-> Scenario(i), delivery |-> case.delivery,
               messages |-> case.messages, rag |-> case.rag]

Overdue == Late(case, promisePassed)
CommerceFacts == [event |-> case.tracking # "none", overdue |-> Overdue]

\* The plan the supervisor publishes with the result.
PlanFor(i) ==
    CASE i = "logistics_query" ->
           [next |-> {"commerce_evidence_skill", "risk_control", "reply"},
            skipped |-> {"policy_retrieval_skill"}]
      [] i = "delivery_delay_compensation" ->
           [next |-> {"logistics_resolution_agent", "commerce_evidence_skill",
                      "policy_retrieval_skill", "risk_control", "reply"},
            skipped |-> {"refund_investigation_agent"}]
      [] i = "refund_risk_review" ->
           [next |-> {"refund_investigation_agent", "commerce_evidence_skill",
                      "policy_retrieval_skill", "refund_review_analyst", "risk_control", "reply"},
            skipped |-> {}]
      [] OTHER ->
           [next |-> {"risk_control", "reply"},
            skipped |-> {"commerce_evidence_skill", "policy_retrieval_skill"}]

\* Every node appends one step to the trace.
Trace(agent) == ran' = ran \cup {agent} /\ trace' = trace + 1

-----------------------------------------------------------------------------
\* A variant that forgets the fast path.
RouteInvestigatedOnly(i) == IF i \in Investigated THEN "specialist" ELSE "risk_control"

RouteAfterSupervisor(i) ==
    CASE i = "logistics_query" -> "fast_commerce_skill"
      [] i \in Investigated -> "specialist"
      [] OTHER -> "risk_control"

Supervisor ==
    /\ node = "supervisor"
    /\ \E i \in Classifications(case) :
          /\ intent' = i
          /\ gate' = IF i \in Investigated
                     THEN EvaluateEvidence(Context(i), NothingFound, FALSE, 0) ELSE gate
          /\ node' = RouteAfterSupervisor(i)
    /\ Trace("supervisor")
    /\ UNCHANGED <<case, promisePassed, step, findings, action, question, facts, recommendation>>

\* A variant that takes the model's word for the end of the investigation.
FinishAtOnce(a) == IF a = "finish" THEN "risk_control" ELSE "case_action"
AfterSpecialist(a) == IF a = "finish" THEN "evidence_gate" ELSE "case_action"

RunSpecialist ==
    /\ node = "specialist"
    /\ \E a \in ChooseCaseAction(findings, gate, step, case.model) :
          action' = a /\ node' = AfterSpecialist(a)
    /\ step' = step + 1
    /\ Trace(Specialist(intent))
    /\ UNCHANGED <<case, promisePassed, intent, findings, gate, question, facts, recommendation>>

-----------------------------------------------------------------------------
(* case_action: one tool, or a question to the customer.                   *)

Skill(a) == CASE a = "ask_customer" -> "case_action_ask_customer"
              [] a = "search_policy" -> "policy_retrieval_skill"
              [] OTHER -> "commerce_evidence_skill"

Observed(a, found) ==
    CASE a = "get_order" -> [findings EXCEPT !.order = TRUE]
      [] a = "analyze_delivery_timeline" -> [findings EXCEPT !.timeline = CommerceFacts.event]
      [] a = "get_ticket_messages" -> [findings EXCEPT !.conversation = case.messages]
      [] a = "inspect_customer_evidence" ->
           [findings EXCEPT !.attachments = case.messages, !.attached = case.attached]
      [] a = "search_policy" -> [findings EXCEPT !.searches = @ + 1, !.sources = @ \/ found]
      [] OTHER -> findings

\* The next node alone reads case_decision, so it is forgotten here.
CaseAction ==
    /\ node = "case_action"
    /\ \E found \in BOOLEAN :
          /\ found => case.rag /\ action = "search_policy"
          /\ findings' = Observed(action, found)
    /\ facts' = IF action = "analyze_delivery_timeline" THEN CommerceFacts ELSE facts
    /\ question' = (question \/ action = "ask_customer")
    /\ action' = "finish"
    /\ node' = "evidence_gate"
    /\ Trace(Skill(action))
    /\ UNCHANGED <<case, promisePassed, intent, step, gate, recommendation>>

-----------------------------------------------------------------------------
\* A variant that ends the graph where a question is pending.
EndWithQuestion(disposition) ==
    CASE disposition = "continue" -> "specialist"
      [] disposition = "waiting_customer" -> "end"
      [] OTHER -> IF Scenario(intent) = "refund" THEN "refund_analyst" ELSE "risk_control"

AfterGate(disposition) ==
    CASE disposition = "continue" -> "specialist"
      [] disposition = "waiting_customer" -> "risk_control"
      [] OTHER -> IF Scenario(intent) = "refund" THEN "refund_analyst" ELSE "risk_control"

EvidenceGate ==
    /\ node = "evidence_gate"
    /\ gate' = EvaluateEvidence(Context(intent), findings, question, step)
    /\ node' = AfterGate(gate'.disposition)
    /\ Trace("evidence_gate")
    /\ UNCHANGED <<case, promisePassed, intent, step, findings, action, question, facts,
                   recommendation>>

FastCommerceSkill ==
    /\ node = "fast_commerce_skill"
    /\ facts' = CommerceFacts
    /\ node' = "risk_control"
    /\ Trace("commerce_evidence_skill")
    /\ UNCHANGED <<case, promisePassed, intent, investigation, recommendation>>

RefundAnalyst ==
    /\ node = "refund_analyst"
    /\ node' = "risk_control"
    /\ Trace("refund_review_analyst")
    /\ UNCHANGED <<case, promisePassed, intent, investigation, facts, recommendation>>

\* A variant that leaves the gate's verdict out.
DecideWithoutGate ==
    IF question THEN "REQUEST_CUSTOMER_EVIDENCE"
    ELSE IF intent = "logistics_query" /\ facts.event THEN "QUERY_LOGISTICS"
    ELSE IF intent = "delivery_delay_compensation" /\ facts.overdue /\ facts.event
         THEN "REQUEST_COUPON_APPROVAL"
    ELSE IF intent = "refund_risk_review" THEN "ESCALATE_REFUND_REVIEW"
    ELSE "ESCALATE_TO_HUMAN"

RiskDecision ==
    IF question THEN "REQUEST_CUSTOMER_EVIDENCE"
    ELSE IF intent = "logistics_query" /\ facts.event THEN "QUERY_LOGISTICS"
    ELSE IF /\ intent = "delivery_delay_compensation" /\ gate.disposition = "ready"
            /\ facts.overdue /\ facts.event
         THEN "REQUEST_COUPON_APPROVAL"
    ELSE IF intent = "refund_risk_review" THEN "ESCALATE_REFUND_REVIEW"
    ELSE "ESCALATE_TO_HUMAN"

RiskControl ==
    /\ node = "risk_control"
    /\ recommendation' = RiskDecision
    /\ node' = "reply"
    /\ Trace("risk_control")
    /\ UNCHANGED <<case, promisePassed, intent, investigation, facts>>

Reply ==
    /\ node = "reply"
    /\ node' = "end"
    /\ Trace("reply")
    /\ UNCHANGED <<case, promisePassed, intent, investigation, facts, recommendation>>

\* The nodes that read a model's answer; a reply is asked for only with sources.
AsksModel ==
    /\ case.model
    /\ node \in {"supervisor", "specialist", "refund_analyst"} \/ (node = "reply" /\ findings.sources)

\* The provider reads choices[0].message.content and raises IndexError without
\* choices, AttributeError without content and ValueError for an empty one.
\* The specialist does not catch the first, the supervisor not the last, and no
\* agent the second: the request fails at that node.
ModelFails ==
    /\ AsksModel
    /\ node' = "failed"
    /\ UNCHANGED <<case, promisePassed, intent, investigation, facts, ran, trace, recommendation>>

\* The promised time passes while the analysis is under way.
TimePasses ==
    /\ ~ promisePassed
    /\ promisePassed' = TRUE
    /\ UNCHANGED <<case, node, intent, investigation, facts, ran, trace, recommendation>>

Advance ==
    \/ Supervisor \/ ModelFails \/ RunSpecialist \/ CaseAction \/ EvidenceGate
    \/ FastCommerceSkill \/ RefundAnalyst \/ RiskControl \/ Reply

Next == Advance \/ TimePasses

\* The graph runs to its end within the request; calls to the model and to the
\* vector store end by their timeouts.
Spec == Init /\ [][Next]_vars /\ WF_vars(Advance)

-----------------------------------------------------------------------------
(* Properties.                                                             *)

\* Compensation is recommended only for a parcel that is late at this moment
\* and with all evidence the gate asks for: order, conversation, tracking and,
\* when retrieval is on, a policy source.
CouponIsGrounded ==
    recommendation = "REQUEST_COUPON_APPROVAL" =>
        /\ Overdue /\ case.tracking # "none" /\ ~ question
        /\ findings.order /\ findings.timeline
        /\ findings.conversation = case.messages
        /\ findings.searches > 0
        /\ case.rag => findings.sources

\* A case under investigation is decided only with its evidence complete, with
\* a question for the customer, or with a budget used up: no model can end an
\* investigation early.
NoEarlyDecision ==
    recommendation # Undecided /\ intent \in Investigated =>
        \/ question /\ recommendation = "REQUEST_CUSTOMER_EVIDENCE"
        \/ MissingSlots(Context(intent), findings) = {}
        \/ SearchesExhausted(Context(intent), findings)
        \/ step = MaxSteps

\* Whatever the model answers, an analysis stays within its documented budgets
\* and within the number of graph steps LangGraph allows.
BudgetsHold ==
    step <= MaxSteps /\ findings.searches <= MaxSearches /\ trace <= RecursionLimit

\* The published plan is what happened: skipped agents never ran, and all
\* planned ones did unless the investigation ended without its evidence.
PlanIsFollowed ==
    /\ node # "supervisor" /\ node # "failed" => PlanFor(intent).skipped \cap ran = {}
    /\ node = "end" /\ (intent \in Investigated => gate.disposition = "ready") =>
          PlanFor(intent).next \subseteq ran

\* Without a model the fixed plan reaches its goal whenever the facts exist: the
\* gate is ready, or the customer is asked for the one thing that is missing.
RulesReachTheGoal ==
    /\ node = "end" /\ ~ case.model /\ intent \in Investigated
    /\ case.tracking # "none"
    /\ case.rag => findings.sources
    => IF Scenario(intent) = "refund" /\ ~ case.attached
       THEN recommendation = "REQUEST_CUSTOMER_EVIDENCE"
       ELSE gate.disposition = "ready"

\* Every analysis ends with a recommendation, or at an answer of a model that its
\* agent cannot read; the rules alone always come to a recommendation.
EveryCaseIsDecided ==
    <>( \/ node = "end" /\ recommendation # Undecided
        \/ node = "failed" /\ case.model )

-----------------------------------------------------------------------------
(* What the documentation says and the code does not do.                   *)

\* Compensation is proposed only when tracking and order status agree
\* (README, the table of the core flows).
CouponWithoutConflict ==
    recommendation = "REQUEST_COUPON_APPROVAL" =>
        (case.tracking \in {"on_time", "late"} <=> case.completed)
=============================================================================
