----------------------- MODULE SnapshotWorkflowProofs -----------------------
(***************************************************************************)
(* Theorems about SnapshotWorkflow for any snapshots, budgets and answers  *)
(* of the model.                                                           *)
(***************************************************************************)
EXTENDS SnapshotWorkflow, CaseEvidenceProofs

AfterInvestigation == {"refund_analyst", "risk_control", "reply", "end"}

\* The gate has judged what is known now.
GateIsFresh == gate = EvaluateEvidence(Context(intent), findings, question, step)

\* Risk control has decided; a reply that fails comes after that.
Decided == node \in {"reply", "end"} \/ (node = "failed" /\ recommendation # Undecided)

\* Where an investigation may go on, and where it is over.
GateInv ==
    /\ node = "supervisor" =>
          /\ findings = NothingFound /\ ~ question /\ step = 0 /\ trace = 0
          /\ facts = NoFacts
    /\ node = "specialist" =>
          /\ intent \in Investigated
          /\ GateIsFresh /\ gate.disposition = "continue"
    /\ node \in {"case_action", "evidence_gate"} => intent \in Investigated
    /\ node = "refund_analyst" => intent = "refund_risk_review"
    /\ node = "fast_commerce_skill" => intent = "logistics_query"
    /\ (node \in AfterInvestigation \/ Decided) /\ intent \in Investigated =>
          GateIsFresh /\ gate.disposition # "continue"

\* The facts are those of the snapshot, and lateness does not go away.
FactsInv ==
    /\ facts.event => case.tracking # "none"
    /\ facts.overdue => Overdue

\* The recommendation is risk control's, from the state as it still is.
DecisionInv ==
    recommendation = IF Decided THEN RiskDecision ELSE Undecided

\* The budgets, and how far the trace can have grown where the graph stands.
BudgetInv ==
    /\ step <= MaxSteps
    /\ node = "specialist" => step < MaxSteps
    /\ findings.searches <= MaxSearches
    /\ node = "case_action" /\ action = "search_policy" => findings.searches < MaxSearches
    /\ node = "specialist" => trace <= 3 * step + 1
    /\ node = "case_action" => trace <= 3 * step - 1
    /\ node = "evidence_gate" => trace <= 3 * step
    /\ node = "fast_commerce_skill" => trace <= 1
    /\ node = "refund_analyst" => trace <= 3 * MaxSteps + 1
    /\ node = "risk_control" => trace <= 3 * MaxSteps + 2
    /\ node = "reply" => trace <= 3 * MaxSteps + 3
    /\ node \in {"end", "failed"} => trace <= 3 * MaxSteps + 4

-----------------------------------------------------------------------------
\* What the gate is told is well formed.
LEMMA ContextType == TypeOK => Context(intent) \in Contexts
BY CasesAssumption DEF TypeOK, Context, Contexts, CaseRecords, Scenario, Scenarios

-----------------------------------------------------------------------------
(* Types.                                                                  *)

LEMMA TypeInit == Init => TypeOK
<1>. SUFFICES ASSUME Init PROVE TypeOK
  OBVIOUS
<1>1. NothingFound \in Findings /\ NoGate \in Gates
  BY DEF NothingFound, Findings, Unread, NoGate, Gates, Dispositions
<1>2. NoFacts \in [event : BOOLEAN, overdue : BOOLEAN]
  BY DEF NoFacts
<1>. QED
  BY <1>1, <1>2 DEF Init, TypeOK, Nodes, Intents, Actions

\* A result of a tool is a finding.
LEMMA ObservedType ==
    ASSUME TypeOK, NEW a \in Actions, NEW found \in BOOLEAN
    PROVE  /\ Observed(a, found) \in Findings
           /\ Observed(a, found).searches
                = IF a = "search_policy" THEN findings.searches + 1 ELSE findings.searches
<1>1. case \in CaseRecords
  BY CasesAssumption DEF TypeOK
<1>2. CommerceFacts \in [event : BOOLEAN, overdue : BOOLEAN]
  BY <1>1 DEF CommerceFacts, Overdue, Late, CaseRecords, TypeOK
<1>3. findings \in Findings
  BY DEF TypeOK
<1>4. CommerceFacts.event \in BOOLEAN /\ case.attached \in BOOLEAN /\ case.messages \in Nat
  BY <1>1, <1>2 DEF CaseRecords
<1>5. CASE a = "search_policy"
  <2>1. (findings.sources \/ found) \in BOOLEAN /\ findings.searches + 1 \in Nat
    BY <1>3 DEF Findings
  <2>. QED
    BY <1>3, <1>5, <2>1 DEF Observed, Findings
<1>6. CASE a # "search_policy"
  BY <1>3, <1>4, <1>6 DEF Observed, Findings
<1>. QED
  BY <1>5, <1>6

\* Every node keeps the graph's state well formed.
LEMMA TypeStep == TypeOK /\ GateInv /\ [Next]_vars => TypeOK'
<1>. SUFFICES ASSUME TypeOK, GateInv, [Next]_vars PROVE TypeOK'
  OBVIOUS
<1>0. case \in CaseRecords
  BY CasesAssumption DEF TypeOK
<1>1. CASE Supervisor
  <2>1. PICK i \in Classifications(case) :
           /\ intent' = i
           /\ gate' = IF i \in Investigated
                     THEN EvaluateEvidence(Context(i), NothingFound, FALSE, 0) ELSE gate
           /\ node' = RouteAfterSupervisor(i)
    BY <1>1 DEF Supervisor
  <2>2. i \in Intents
    BY <1>0 DEF Classifications, CaseRecords
  <2>3. gate' \in Gates
    BY <2>1, GateFacts DEF TypeOK
  <2>4. node' \in Nodes
    BY <2>1, <2>2 DEF RouteAfterSupervisor, Nodes
  <2>5. /\ UNCHANGED <<case, promisePassed, step, findings, action, question, facts,
                      recommendation>>
        /\ Trace("supervisor")
    BY <1>1 DEF Supervisor
  <2>6. ran' \subseteq Agents /\ trace' \in Nat
    BY <2>5 DEF Trace, TypeOK, Agents
  <2>. QED
    BY <2>1, <2>2, <2>3, <2>4, <2>5, <2>6 DEF TypeOK
<1>2. CASE ModelFails
  BY <1>2 DEF ModelFails, TypeOK, Nodes, investigation
<1>3. CASE RunSpecialist
  <2>1. PICK a \in ChooseCaseAction(findings, gate, step, case.model) :
           action' = a /\ node' = AfterSpecialist(a)
    BY <1>3 DEF RunSpecialist
  <2>2. a \in Actions
    BY DEF ChooseCaseAction, Fallback, Actions
  <2>3. Specialist(intent) \in Agents /\ node' \in Nodes
    BY <2>1 DEF Specialist, Agents, AfterSpecialist, Nodes
  <2>. QED
    BY <1>3, <2>1, <2>2, <2>3 DEF RunSpecialist, TypeOK, Trace
<1>4. CASE CaseAction
  <2>1. findings' \in Findings
    BY <1>4, ObservedType DEF CaseAction, TypeOK
  <2>2. facts' \in [event : BOOLEAN, overdue : BOOLEAN]
    BY <1>0, <1>4 DEF CaseAction, CommerceFacts, Overdue, Late, TypeOK, CaseRecords
  <2>. QED
    BY <1>4, <2>1, <2>2 DEF CaseAction, TypeOK, Trace, Skill, Agents, Actions, Nodes
<1>5. CASE EvidenceGate
  <2>1. gate' \in Gates
    BY <1>5, GateFacts DEF EvidenceGate, TypeOK
  <2>2. node' \in Nodes
    BY <1>5 DEF EvidenceGate, AfterGate, Nodes
  <2>. QED
    BY <1>5, <2>1, <2>2 DEF EvidenceGate, TypeOK, Trace, Agents
<1>6. CASE FastCommerceSkill
  BY <1>0, <1>6 DEF FastCommerceSkill, CommerceFacts, Overdue, Late, TypeOK, CaseRecords, Trace,
                    Agents, Nodes, investigation
<1>7. CASE RefundAnalyst
  BY <1>7 DEF RefundAnalyst, TypeOK, Trace, Agents, Nodes, investigation
<1>8. CASE RiskControl
  BY <1>8 DEF RiskControl, RiskDecision, Recommendations, TypeOK, Trace, Agents, Nodes,
              investigation
<1>9. CASE Reply
  BY <1>9 DEF Reply, TypeOK, Trace, Agents, Nodes, investigation
<1>10. CASE TimePasses
  BY <1>10 DEF TimePasses, TypeOK, investigation
<1>11. CASE UNCHANGED vars
  BY <1>11 DEF vars, TypeOK, investigation
<1>. QED
  BY <1>1, <1>2, <1>3, <1>4, <1>5, <1>6, <1>7, <1>8, <1>9, <1>10, <1>11 DEF Next, Advance

-----------------------------------------------------------------------------
(* The gate.                                                               *)

\* The gate's verdict is fresh wherever the graph relies on it.
LEMMA GateStep == TypeOK /\ GateInv /\ DecisionInv /\ [Next]_vars => GateInv'
<1>. SUFFICES ASSUME TypeOK, GateInv, DecisionInv, [Next]_vars PROVE GateInv'
  OBVIOUS
<1>. USE DEF AfterInvestigation, Decided
<1>1. CASE Supervisor
  <2>1. PICK i \in Classifications(case) :
           /\ intent' = i
           /\ gate' = IF i \in Investigated
                     THEN EvaluateEvidence(Context(i), NothingFound, FALSE, 0) ELSE gate
           /\ node' = RouteAfterSupervisor(i)
    BY <1>1 DEF Supervisor
  <2>2. findings' = NothingFound /\ question' = FALSE /\ step' = 0 /\ case' = case
    BY <1>1 DEF Supervisor, GateInv, TypeOK
  <2>3. Context(intent)' = Context(i)
    BY <2>1, <2>2 DEF Context
  <2>4. i \in Investigated => gate' = EvaluateEvidence(Context(intent)', findings', question', step')
    BY <2>1, <2>2, <2>3
  <2>5. i \in Investigated => gate'.disposition = "continue"
    <3>1. "order" \in MissingSlots(Context(i), NothingFound)
      BY DEF MissingSlots, NothingFound, Slots
    <3>2. ~ SearchesExhausted(Context(i), NothingFound)
      BY BudgetAssumption DEF SearchesExhausted, NothingFound
    <3>. QED
      BY <2>1, <3>1, <3>2, BudgetAssumption DEF EvaluateEvidence
  <2>. QED
    BY <2>1, <2>4, <2>5 DEF GateInv, GateIsFresh, RouteAfterSupervisor, Investigated
<1>2. CASE ModelFails
  <2>1. Decided' => node = "reply"
    BY <1>2 DEF ModelFails, AsksModel, DecisionInv
  <2>. QED
    BY <1>2, <2>1 DEF ModelFails, GateInv, GateIsFresh, Context, investigation
<1>3. CASE RunSpecialist
  BY <1>3 DEF RunSpecialist, AfterSpecialist, GateInv
<1>4. CASE CaseAction
  BY <1>4 DEF CaseAction, GateInv
<1>5. CASE EvidenceGate
  <2>1. /\ UNCHANGED <<case, intent, findings, question, step>>
        /\ gate' = EvaluateEvidence(Context(intent), findings, question, step)
        /\ node' = AfterGate(gate'.disposition)
        /\ intent \in Investigated
    BY <1>5 DEF EvidenceGate, GateInv
  <2>2. GateIsFresh'
    BY <2>1 DEF GateIsFresh, Context
  <2>. QED
    BY <2>1, <2>2 DEF GateInv, AfterGate, Scenario, Investigated
<1>6. CASE FastCommerceSkill
  BY <1>6 DEF FastCommerceSkill, GateInv, Investigated, investigation
<1>7. CASE RefundAnalyst \/ RiskControl \/ Reply
  BY <1>7 DEF RefundAnalyst, RiskControl, Reply, GateInv, GateIsFresh, Context, investigation
<1>8. CASE TimePasses \/ UNCHANGED vars
  BY <1>8 DEF TimePasses, vars, GateInv, GateIsFresh, Context, investigation
<1>. QED
  BY <1>1, <1>2, <1>3, <1>4, <1>5, <1>6, <1>7, <1>8 DEF Next, Advance

\* Facts are taken from the snapshot and the clock.
LEMMA FactsStep == TypeOK /\ FactsInv /\ [Next]_vars => FactsInv'
<1>. SUFFICES ASSUME TypeOK, FactsInv, [Next]_vars PROVE FactsInv'
  OBVIOUS
<1>0. case' = case
  BY DEF Next, Advance, Supervisor, ModelFails, RunSpecialist, CaseAction, EvidenceGate,
         FastCommerceSkill, RefundAnalyst, RiskControl, Reply, TimePasses, vars
<1>1. CASE CaseAction \/ FastCommerceSkill
  <2>1. promisePassed' = promisePassed /\ facts' \in {facts, CommerceFacts}
    BY <1>1 DEF CaseAction, FastCommerceSkill
  <2>. QED
    <3>1. (case.tracking # "none")' = (case.tracking # "none") /\ Overdue' = Overdue
      BY <1>0, <2>1 DEF Overdue
    <3>2. CASE facts' = facts
      BY <3>1, <3>2 DEF FactsInv
    <3>3. CASE facts' = CommerceFacts
      <4>1. facts'.event = (case.tracking # "none") /\ facts'.overdue = Overdue
        BY <3>3 DEF CommerceFacts
      <4>. QED
        BY <1>0, <3>1, <4>1, Zenon DEF FactsInv
    <3>. QED
      BY <2>1, <3>2, <3>3
<1>2. CASE TimePasses
  BY <1>0, <1>2 DEF TimePasses, FactsInv, Overdue, Late
<1>3. CASE UNCHANGED <<facts, promisePassed>>
  BY <1>0, <1>3 DEF FactsInv, Overdue
<1>4. Supervisor \/ ModelFails \/ RunSpecialist \/ EvidenceGate \/ RefundAnalyst
        \/ RiskControl \/ Reply \/ UNCHANGED vars => UNCHANGED <<facts, promisePassed>>
  BY DEF Supervisor, ModelFails, RunSpecialist, EvidenceGate, RefundAnalyst, RiskControl,
         Reply, vars
<1>. QED
  BY <1>1, <1>2, <1>3, <1>4 DEF Next, Advance

\* A recommendation is made once, from a state that no longer changes.
LEMMA DecisionStep == TypeOK /\ DecisionInv /\ [Next]_vars => DecisionInv'
<1>. SUFFICES ASSUME TypeOK, DecisionInv, [Next]_vars PROVE DecisionInv'
  OBVIOUS
<1>. USE DEF Decided
<1>1. CASE RiskControl \/ Reply \/ TimePasses \/ UNCHANGED vars
  <2>1. RiskDecision' = RiskDecision
    BY <1>1 DEF RiskControl, Reply, TimePasses, vars, investigation, RiskDecision
  <2>. QED
    <3>1. CASE RiskControl
      BY <2>1, <3>1 DEF RiskControl, DecisionInv
    <3>2. CASE Reply
      BY <2>1, <3>2 DEF Reply, DecisionInv
    <3>3. CASE TimePasses \/ UNCHANGED vars
      BY <2>1, <3>3 DEF TimePasses, vars, DecisionInv
    <3>. QED
      BY <1>1, <3>1, <3>2, <3>3
<1>2. CASE Supervisor
  BY <1>2 DEF Supervisor, RouteAfterSupervisor, DecisionInv
<1>3. CASE RunSpecialist \/ CaseAction \/ FastCommerceSkill \/ RefundAnalyst
  BY <1>3 DEF RunSpecialist, AfterSpecialist, CaseAction, FastCommerceSkill, RefundAnalyst,
              DecisionInv
<1>4. CASE EvidenceGate
  BY <1>4 DEF EvidenceGate, AfterGate, DecisionInv
<1>5. CASE ModelFails
  <2>1. RiskDecision' = RiskDecision /\ recommendation' = recommendation
    BY <1>5 DEF ModelFails, investigation, RiskDecision
  <2>. QED
    BY <1>5, <2>1 DEF ModelFails, DecisionInv
<1>. QED
  BY <1>1, <1>2, <1>3, <1>4, <1>5 DEF Next, Advance

-----------------------------------------------------------------------------
(* The budgets.                                                            *)

\* A round of an investigation costs a step and at most three nodes.
LEMMA BudgetStep ==
    TypeOK /\ GateInv /\ BudgetInv /\ [Next]_vars => BudgetInv'
<1>. SUFFICES ASSUME TypeOK, GateInv, BudgetInv, [Next]_vars PROVE BudgetInv'
  OBVIOUS
<1>. USE BudgetAssumption
<1>0. step \in Nat /\ trace \in Nat /\ findings.searches \in Nat
  BY DEF TypeOK, Findings
<1>1. CASE Supervisor
  BY <1>0, <1>1 DEF Supervisor, RouteAfterSupervisor, Trace, GateInv, BudgetInv, NothingFound
<1>2. CASE ModelFails
  BY <1>0, <1>2 DEF ModelFails, AsksModel, GateInv, BudgetInv, investigation
<1>3. CASE RunSpecialist
  <2>1. PICK a \in ChooseCaseAction(findings, gate, step, case.model) :
           action' = a /\ node' = AfterSpecialist(a)
    BY <1>3 DEF RunSpecialist
  <2>2. case.model \in BOOLEAN
    BY CasesAssumption DEF TypeOK, CaseRecords
  <2>3. /\ gate = EvaluateEvidence(Context(intent), findings, question, step)
        /\ gate.disposition = "continue"
    BY <1>3 DEF RunSpecialist, GateInv, GateIsFresh
  <2>4. question = FALSE
    <3>1. question \in BOOLEAN
      BY DEF TypeOK
    <3>. QED
      BY <1>0, <2>3, <3>1, GateFacts
  <2>5. a = "search_policy" => findings.searches < MaxSearches
    BY <1>0, <2>1, <2>2, <2>3, <2>4, PlannerFacts, ContextType DEF TypeOK
  <2>6. /\ step' = step + 1 /\ trace' = trace + 1 /\ findings' = findings
        /\ step < MaxSteps /\ trace <= 3 * step + 1
    BY <1>3 DEF RunSpecialist, Trace, BudgetInv
  <2>7. node' = "evidence_gate" \/ node' = "case_action"
    BY <2>1 DEF AfterSpecialist
  <2>. QED
    BY <1>0, <2>1, <2>5, <2>6, <2>7 DEF BudgetInv
<1>4. CASE CaseAction
  <2>1. PICK found \in BOOLEAN : findings' = Observed(action, found)
    BY <1>4 DEF CaseAction
  <2>2. findings'.searches = IF action = "search_policy" THEN findings.searches + 1
                             ELSE findings.searches
    BY <2>1, ObservedType DEF TypeOK
  <2>3. /\ node = "case_action" /\ node' = "evidence_gate" /\ step' = step
        /\ trace' = trace + 1
    BY <1>4 DEF CaseAction, Trace
  <2>. QED
    BY <1>0, <2>2, <2>3 DEF BudgetInv
<1>5. CASE EvidenceGate
  <2>1. /\ gate' = EvaluateEvidence(Context(intent), findings, question, step)
        /\ node' = AfterGate(gate'.disposition)
        /\ node = "evidence_gate" /\ trace' = trace + 1 /\ UNCHANGED <<step, findings, action>>
    BY <1>5 DEF EvidenceGate, Trace
  <2>2. gate'.disposition = "continue" => step < MaxSteps
    <3>1. question \in BOOLEAN
      BY DEF TypeOK
    <3>2. EvaluateEvidence(Context(intent), findings, question, step).disposition = "continue"
             => step < MaxSteps
      BY <1>0, <3>1, GateFacts
    <3>. QED
      BY <2>1, <3>2
  <2>3. node' \in {"specialist", "risk_control", "refund_analyst"}
        /\ (node' = "specialist" => gate'.disposition = "continue")
    BY <2>1 DEF AfterGate
  <2>. QED
    BY <1>0, <2>1, <2>2, <2>3 DEF BudgetInv
<1>6. CASE FastCommerceSkill
  BY <1>0, <1>6 DEF FastCommerceSkill, BudgetInv, Trace, investigation
<1>7. CASE RefundAnalyst
  BY <1>0, <1>7 DEF RefundAnalyst, BudgetInv, Trace, investigation
<1>8. CASE RiskControl
  BY <1>0, <1>8 DEF RiskControl, BudgetInv, Trace, investigation
<1>9. CASE Reply
  BY <1>0, <1>9 DEF Reply, BudgetInv, Trace, investigation
<1>10. CASE TimePasses \/ UNCHANGED vars
  BY <1>10 DEF TimePasses, vars, BudgetInv, investigation
<1>. QED
  BY <1>1, <1>2, <1>3, <1>4, <1>5, <1>6, <1>7, <1>8, <1>9, <1>10 DEF Next, Advance

-----------------------------------------------------------------------------
WorkflowInv == TypeOK /\ GateInv /\ FactsInv /\ DecisionInv /\ BudgetInv

LEMMA InitInv == Init => WorkflowInv
<1>. SUFFICES ASSUME Init PROVE WorkflowInv
  OBVIOUS
<1>1. TypeOK
  BY TypeInit
<1>2. GateInv /\ FactsInv /\ DecisionInv
  BY DEF Init, Decided, GateInv, FactsInv, DecisionInv, NoFacts, AfterInvestigation
<1>3. BudgetInv
  BY BudgetAssumption DEF Init, BudgetInv, NothingFound
<1>. QED
  BY <1>1, <1>2, <1>3 DEF WorkflowInv

\* All of the invariant holds in every reachable state.
THEOREM WorkflowInvariant == Spec => []WorkflowInv
<1>1. WorkflowInv /\ [Next]_vars => WorkflowInv'
  BY TypeStep, GateStep, FactsStep, DecisionStep, BudgetStep DEF WorkflowInv
<1>. QED
  BY <1>1, InitInv, PTL DEF Spec

\* The state of the graph stays well formed (SnapshotState).
THEOREM TypeCorrect == Spec => []TypeOK
<1>1. WorkflowInv => TypeOK
  BY DEF WorkflowInv
<1>. QED
  BY <1>1, WorkflowInvariant, PTL

\* No model makes an analysis exceed its budgets or LangGraph's limit
\* (choose_case_action, evaluate_evidence, orchestrate_snapshot).
THEOREM BudgetsAreKept == Spec => []BudgetsHold
<1>1. WorkflowInv => BudgetsHold
  <2>. SUFFICES ASSUME WorkflowInv PROVE BudgetsHold
    OBVIOUS
  <2>1. trace <= 3 * MaxSteps + 4
    <3>1. step \in Nat /\ trace \in Nat /\ step <= MaxSteps /\ node \in Nodes
      BY DEF WorkflowInv, TypeOK, BudgetInv
    <3>2. node = "supervisor" => trace = 0
      BY DEF WorkflowInv, GateInv
    <3>. QED
      BY <3>1, <3>2, BudgetAssumption DEF WorkflowInv, BudgetInv, Nodes
  <2>. QED
    BY <2>1, RecursionAssumption, BudgetAssumption DEF WorkflowInv, TypeOK, BudgetInv, BudgetsHold
<1>. QED
  BY <1>1, WorkflowInvariant, PTL

\* No model ends an investigation before its evidence is complete, a question
\* is asked or a budget is used up (after_evidence_gate, risk_control).
THEOREM DecisionsWait == Spec => []NoEarlyDecision
<1>1. WorkflowInv => NoEarlyDecision
  <2>. SUFFICES ASSUME WorkflowInv, recommendation # Undecided, intent \in Investigated
                PROVE  \/ question /\ recommendation = "REQUEST_CUSTOMER_EVIDENCE"
                       \/ MissingSlots(Context(intent), findings) = {}
                       \/ SearchesExhausted(Context(intent), findings)
                       \/ step = MaxSteps
    BY DEF NoEarlyDecision
  <2>1. Decided /\ recommendation = RiskDecision
    BY DEF WorkflowInv, DecisionInv
  <2>2. GateIsFresh /\ gate.disposition # "continue"
    BY <2>1 DEF WorkflowInv, GateInv, AfterInvestigation
  <2>3. step \in Nat /\ step <= MaxSteps /\ question \in BOOLEAN /\ gate \in Gates
    BY DEF WorkflowInv, TypeOK, BudgetInv
  <2>4. CASE gate.disposition = "waiting_customer"
    <3>1. question
      BY <2>2, <2>3, <2>4, GateFacts DEF GateIsFresh
    <3>. QED
      BY <2>1, <3>1 DEF RiskDecision
  <2>5. CASE gate.disposition = "ready"
    BY <2>2, <2>3, <2>5, GateFacts DEF GateIsFresh
  <2>6. CASE gate.disposition = "budget_exhausted"
    BY <2>2, <2>3, <2>6, GateFacts, BudgetAssumption DEF GateIsFresh
  <2>. QED
    BY <2>2, <2>3, <2>4, <2>5, <2>6 DEF Gates, Dispositions
<1>. QED
  BY <1>1, WorkflowInvariant, PTL

\* Compensation is recommended only for a late parcel with complete evidence
\* (risk_control).
THEOREM CouponsAreGrounded == Spec => []CouponIsGrounded
<1>1. WorkflowInv => CouponIsGrounded
  <2>. SUFFICES ASSUME WorkflowInv, recommendation = "REQUEST_COUPON_APPROVAL"
                PROVE  /\ Overdue /\ case.tracking # "none" /\ ~ question
                       /\ findings.order /\ findings.timeline
                       /\ findings.conversation = case.messages
                       /\ findings.searches > 0
                       /\ case.rag => findings.sources
    BY DEF CouponIsGrounded
  <2>1. Decided /\ recommendation = RiskDecision
    BY UndecidedAssumption DEF WorkflowInv, DecisionInv, Recommendations
  <2>2. /\ intent = "delivery_delay_compensation" /\ gate.disposition = "ready"
        /\ facts.overdue /\ facts.event /\ ~ question
    BY <2>1 DEF RiskDecision
  <2>3. GateIsFresh
    BY <2>1, <2>2 DEF WorkflowInv, GateInv, AfterInvestigation, Investigated
  <2>4. MissingSlots(Context(intent), findings) = {}
    BY <2>2, <2>3, GateFacts DEF GateIsFresh, WorkflowInv, TypeOK
  <2>5. findings.searches \in Nat /\ Context(intent).scenario = "delivery_delay"
        /\ Context(intent).rag = case.rag /\ Context(intent).messages = case.messages
    BY <2>2 DEF WorkflowInv, TypeOK, Findings, Context, Scenario
  <2>6. findings.order /\ findings.timeline /\ findings.conversation = case.messages
    BY <2>4, <2>5 DEF MissingSlots, Slots
  <2>7. findings.searches # 0 /\ (case.rag => findings.sources)
    BY <2>4, <2>5 DEF MissingSlots, Slots
  <2>. QED
    BY <2>2, <2>5, <2>6, <2>7 DEF WorkflowInv, FactsInv
<1>. QED
  BY <1>1, WorkflowInvariant, PTL

-----------------------------------------------------------------------------
(* The plan.                                                               *)

Decisive == {"risk_control", "reply", "end"}

\* Which agents cannot have run, and which must have by now.
AgentsInv ==
    /\ node = "supervisor" => ran = {}
    /\ node # "supervisor" /\ node # "failed" =>
          /\ "supervisor" \in ran
          /\ intent = "logistics_query" => "policy_retrieval_skill" \notin ran
          /\ intent = "delivery_delay_compensation" => "refund_investigation_agent" \notin ran
          /\ intent = "other" =>
                "commerce_evidence_skill" \notin ran /\ "policy_retrieval_skill" \notin ran
    /\ findings.order => "commerce_evidence_skill" \in ran
    /\ findings.searches # 0 => "policy_retrieval_skill" \in ran
    /\ node \in {"case_action", "evidence_gate"} \cup AfterInvestigation
          /\ intent \in Investigated => Specialist(intent) \in ran
    /\ node \in Decisive /\ intent = "refund_risk_review" /\ gate.disposition = "ready" =>
          "refund_review_analyst" \in ran
    /\ node \in Decisive /\ intent = "logistics_query" => "commerce_evidence_skill" \in ran
    /\ node \in {"reply", "end"} => "risk_control" \in ran
    /\ node = "end" => "reply" \in ran

\* Every node enters its agent, and only that.
LEMMA AgentsStep == TypeOK /\ GateInv /\ AgentsInv /\ [Next]_vars => AgentsInv'
<1>. SUFFICES ASSUME TypeOK, GateInv, AgentsInv, [Next]_vars PROVE AgentsInv'
  OBVIOUS
<1>. USE DEF AgentsInv, Decisive, AfterInvestigation, Trace
<1>1. CASE Supervisor
  <2>1. PICK i \in Classifications(case) : intent' = i /\ node' = RouteAfterSupervisor(i)
    BY <1>1 DEF Supervisor
  <2>2. /\ ran' = {"supervisor"} /\ findings' = NothingFound
        /\ node' \in {"fast_commerce_skill", "specialist", "risk_control"}
        /\ node' = "risk_control" => i # "logistics_query" /\ i \notin Investigated
    BY <1>1, <2>1 DEF Supervisor, GateInv, RouteAfterSupervisor
  <2>. QED
    BY <2>1, <2>2 DEF NothingFound, Investigated
<1>2. CASE ModelFails
  BY <1>2 DEF ModelFails, investigation
<1>3. CASE RunSpecialist
  BY <1>3 DEF RunSpecialist, AfterSpecialist, GateInv, Specialist, Investigated
<1>4. CASE CaseAction
  <2>1. PICK found \in BOOLEAN : findings' = Observed(action, found)
    BY <1>4 DEF CaseAction
  <2>2. findings'.order => findings.order \/ action = "get_order"
    BY <2>1 DEF Observed, TypeOK, Findings
  <2>3. findings'.searches # 0 => findings.searches # 0 \/ action = "search_policy"
    BY <2>1, ObservedType DEF TypeOK
  <2>4. /\ node = "case_action" /\ node' = "evidence_gate" /\ intent' = intent
        /\ ran' = ran \cup {Skill(action)} /\ intent \in Investigated
    BY <1>4 DEF CaseAction, GateInv
  <2>5. Skill(action) # "refund_investigation_agent"
    BY DEF Skill
  <2>6. (action = "get_order" => Skill(action) = "commerce_evidence_skill")
        /\ (action = "search_policy" => Skill(action) = "policy_retrieval_skill")
    BY DEF Skill
  <2>. QED
    BY <2>2, <2>3, <2>4, <2>5, <2>6 DEF Investigated, Specialist
<1>5. CASE EvidenceGate
  <2>1. /\ node' = AfterGate(gate'.disposition) /\ node = "evidence_gate"
        /\ ran' = ran \cup {"evidence_gate"} /\ UNCHANGED <<intent, findings>>
        /\ intent \in Investigated
    BY <1>5 DEF EvidenceGate, GateInv
  <2>2. /\ node' \in {"specialist", "risk_control", "refund_analyst"}
        /\ node' = "risk_control" /\ gate'.disposition = "ready" => Scenario(intent) # "refund"
    BY <2>1 DEF AfterGate
  <2>. QED
    BY <2>1, <2>2 DEF Investigated, Scenario, Specialist
<1>6. CASE FastCommerceSkill
  BY <1>6 DEF FastCommerceSkill, GateInv, Investigated, investigation
<1>7. CASE RefundAnalyst
  BY <1>7 DEF RefundAnalyst, GateInv, Specialist, investigation
<1>8. CASE RiskControl
  BY <1>8 DEF RiskControl, Specialist, investigation
<1>9. CASE Reply
  BY <1>9 DEF Reply, Specialist, investigation
<1>10. CASE TimePasses \/ UNCHANGED vars
  BY <1>10 DEF TimePasses, vars, Specialist, investigation
<1>. QED
  BY <1>1, <1>2, <1>3, <1>4, <1>5, <1>6, <1>7, <1>8, <1>9, <1>10 DEF Next, Advance

\* The plan that is published with a result is what was done
\* (supervisor, execution_plan).
THEOREM PlansAreFollowed == Spec => []PlanIsFollowed
<1>1. Init => AgentsInv
  BY DEF Init, AgentsInv, NothingFound, AfterInvestigation, Decisive
<1>2. WorkflowInv /\ AgentsInv /\ [Next]_vars => AgentsInv'
  BY AgentsStep DEF WorkflowInv
<1>3. WorkflowInv /\ AgentsInv => PlanIsFollowed
  <2>. SUFFICES ASSUME WorkflowInv, AgentsInv PROVE PlanIsFollowed
    OBVIOUS
  <2>1. intent \in Intents
    BY DEF WorkflowInv, TypeOK
  <2>2. ASSUME node # "supervisor", node # "failed" PROVE PlanFor(intent).skipped \cap ran = {}
    BY <2>1, <2>2 DEF PlanFor, AgentsInv, Intents
  <2>3. ASSUME node = "end", intent \in Investigated => gate.disposition = "ready"
        PROVE  PlanFor(intent).next \subseteq ran
    <3>1. "risk_control" \in ran /\ "reply" \in ran
      BY <2>3 DEF AgentsInv
    <3>2. CASE intent \in Investigated
      <4>1. Specialist(intent) \in ran
        BY <2>3, <3>2 DEF AgentsInv, AfterInvestigation
      <4>2. GateIsFresh /\ gate.disposition = "ready"
        BY <2>3, <3>2 DEF WorkflowInv, GateInv, AfterInvestigation
      <4>3. MissingSlots(Context(intent), findings) = {}
        BY <4>2, GateFacts DEF GateIsFresh, WorkflowInv, TypeOK
      <4>4. findings.order /\ findings.searches # 0
        BY <4>3 DEF MissingSlots, Slots
      <4>5. "commerce_evidence_skill" \in ran /\ "policy_retrieval_skill" \in ran
        BY <4>4 DEF AgentsInv
      <4>6. intent = "refund_risk_review" => "refund_review_analyst" \in ran
        BY <2>3, <4>2 DEF AgentsInv, Decisive
      <4>. QED
        BY <3>1, <3>2, <4>1, <4>5, <4>6 DEF PlanFor, Specialist, Investigated
    <3>3. CASE intent \notin Investigated
      BY <2>1, <2>3, <3>1, <3>3 DEF PlanFor, Intents, Investigated, AgentsInv, Decisive
    <3>. QED
      BY <3>2, <3>3
  <2>. QED
    BY <2>2, <2>3 DEF PlanIsFollowed
<1>. QED
  BY <1>1, <1>2, <1>3, WorkflowInvariant, PTL DEF Spec

-----------------------------------------------------------------------------
(* The offline plan.                                                       *)

\* A case that is investigated by the rules and has the facts they look for.
PlannedCase ==
    /\ ~ case.model /\ case.tracking # "none"
    /\ intent \in Investigated /\ node \notin {"supervisor", "failed"}

One(done) == IF done THEN 1 ELSE 0

\* The results the plan has obtained so far.
Done ==
    One(findings.order) + One(findings.conversation # Unread) + One(findings.timeline)
        + findings.searches + One(findings.attachments # Unread) + One(question)

\* Every step of the plan obtains one new result, and its question is about an
\* attachment that it has looked for in vain.
RulesInv ==
    PlannedCase =>
        /\ findings.conversation \in {Unread, case.messages}
        /\ findings.attachments \in {Unread, case.messages}
        /\ (findings.attached <=> findings.attachments # Unread /\ case.attached)
        /\ question => Scenario(intent) = "refund" /\ ~ case.attached
        /\ IF node = "case_action"
           THEN /\ ~ question /\ action # "finish"
                /\ action = Fallback(MissingSlots(Context(intent), findings))
                /\ step <= Done + 1
           ELSE step <= Done

\* A tool that the plan chooses obtains what was missing.
LEMMA PlannedActionStep ==
    ASSUME TypeOK, GateInv, RulesInv, PlannedCase, CaseAction
    PROVE  RulesInv'
<1>. DEFINE missing == MissingSlots(Context(intent), findings)
<1>1. PICK found \in BOOLEAN : findings' = Observed(action, found)
  BY DEF CaseAction
<1>2. /\ findings \in Findings /\ case.messages \in Nat /\ case.attached \in BOOLEAN
      /\ step \in Nat /\ question \in BOOLEAN
  BY CasesAssumption DEF TypeOK, CaseRecords
<1>3. /\ node = "case_action" /\ action = Fallback(missing) /\ action # "finish" /\ ~ question
      /\ step <= Done + 1 /\ UNCHANGED <<case, intent, step>> /\ node' = "evidence_gate"
      /\ (question' <=> action = "ask_customer")
  BY DEF CaseAction, RulesInv
<1>4. missing \in SUBSET Slots
  BY DEF MissingSlots
<1>5. /\ "order" \in missing => ~ findings.order
      /\ "conversation" \in missing => findings.conversation # case.messages
      /\ "logistics" \in missing => ~ findings.timeline
      /\ "evidence_status" \in missing <=>
            Scenario(intent) = "refund" /\ findings.attachments # case.messages
      /\ "evidence" \in missing => Scenario(intent) = "refund" /\ ~ findings.attached
  BY DEF MissingSlots, Context, Slots
<1>6. /\ findings.conversation \in {Unread, case.messages}
      /\ findings.attachments \in {Unread, case.messages}
      /\ (findings.attached <=> findings.attachments # Unread /\ case.attached)
      /\ Unread # case.messages
  BY <1>2 DEF RulesInv, Unread
<1>7. action \in Actions \ {"finish"}
  BY <1>3 DEF TypeOK
<1>. HIDE DEF missing
<1>8. /\ findings'.order = IF action = "get_order" THEN TRUE ELSE findings.order
      /\ findings'.timeline = IF action = "analyze_delivery_timeline" THEN TRUE ELSE findings.timeline
      /\ findings'.conversation = IF action = "get_ticket_messages" THEN case.messages
                                  ELSE findings.conversation
      /\ findings'.attachments = IF action = "inspect_customer_evidence" THEN case.messages
                                 ELSE findings.attachments
      /\ findings'.attached = IF action = "inspect_customer_evidence" THEN case.attached
                              ELSE findings.attached
      /\ findings'.searches = IF action = "search_policy" THEN findings.searches + 1
                              ELSE findings.searches
  <2>1. CommerceFacts.event = TRUE
    BY DEF PlannedCase, CommerceFacts
  <2>. QED
    BY <1>1, <1>2, <1>7, <2>1 DEF Observed, Findings, Actions
<1>9. /\ findings'.conversation \in {Unread, case.messages}
      /\ findings'.attachments \in {Unread, case.messages}
      /\ (findings'.attached <=> findings'.attachments # Unread /\ case.attached)
  BY <1>2, <1>6, <1>8
<1>10. question' => Scenario(intent) = "refund" /\ ~ case.attached
  <2>. SUFFICES ASSUME action = "ask_customer"
                PROVE  Scenario(intent) = "refund" /\ ~ case.attached
    BY <1>3
  <2>1. "evidence" \in missing /\ "evidence_status" \notin missing
    BY <1>3, <1>4, FallbackFacts
  <2>. QED  BY <1>2, <1>5, <1>6, <2>1
<1>11. Done' = Done + 1
  <2>1. /\ action = "get_order" => ~ findings.order
        /\ action = "get_ticket_messages" => findings.conversation = Unread
        /\ action = "analyze_delivery_timeline" => ~ findings.timeline
        /\ action = "inspect_customer_evidence" => findings.attachments = Unread
    BY <1>3, <1>4, <1>5, <1>6, FallbackFacts
  <2>2. One(findings'.order) = One(findings.order) + One(action = "get_order")
    BY <1>8, <2>1 DEF One
  <2>3. One(findings'.conversation # Unread)
           = One(findings.conversation # Unread) + One(action = "get_ticket_messages")
    BY <1>6, <1>8, <2>1 DEF One
  <2>4. One(findings'.timeline) = One(findings.timeline) + One(action = "analyze_delivery_timeline")
    BY <1>8, <2>1 DEF One
  <2>5. findings'.searches = findings.searches + One(action = "search_policy")
    BY <1>2, <1>8 DEF One, Findings
  <2>6. One(findings'.attachments # Unread)
           = One(findings.attachments # Unread) + One(action = "inspect_customer_evidence")
    BY <1>6, <1>8, <2>1 DEF One
  <2>7. One(question') = One(question) + One(action = "ask_customer")
    BY <1>3 DEF One
  <2>8. One(action = "get_order") + One(action = "get_ticket_messages")
           + One(action = "analyze_delivery_timeline") + One(action = "search_policy")
           + One(action = "inspect_customer_evidence") + One(action = "ask_customer") = 1
    BY <1>7 DEF One, Actions
  <2>9. findings.searches \in Int /\ \A done : One(done) \in Int
    BY <1>2 DEF Findings, One
  <2>. QED
    BY <2>2, <2>3, <2>4, <2>5, <2>6, <2>7, <2>8, <2>9 DEF Done
<1>12. Done \in Int /\ Done' \in Int
  <2>1. findings' \in Findings
    BY <1>1, <1>3, ObservedType DEF TypeOK
  <2>. QED  BY <1>2, <2>1 DEF Done, One, Findings
<1>. QED
  BY <1>2, <1>3, <1>9, <1>10, <1>11, <1>12 DEF RulesInv

\* Each node of the graph keeps to the plan.
LEMMA RulesStep ==
    ASSUME TypeOK, GateInv, RulesInv, [Next]_vars
    PROVE  RulesInv'
<1>1. CASE Supervisor
  <2>1. /\ findings' = NothingFound /\ question' = FALSE /\ step' = 0 /\ node' # "case_action"
        /\ case' = case
    BY <1>1 DEF Supervisor, GateInv, TypeOK, RouteAfterSupervisor
  <2>2. Done' = 0
    BY <2>1 DEF Done, One, NothingFound, Unread
  <2>. QED  BY <2>1, <2>2 DEF RulesInv, NothingFound
<1>2. CASE RunSpecialist
  <2>. SUFFICES ASSUME PlannedCase'  PROVE RulesInv'
    BY DEF RulesInv
  <2>1. /\ node = "specialist" /\ UNCHANGED <<case, intent, findings, question>> /\ step' = step + 1
        /\ PlannedCase /\ step \in Nat /\ question \in BOOLEAN
    BY <1>2 DEF RunSpecialist, PlannedCase, TypeOK
  <2>2. /\ gate = EvaluateEvidence(Context(intent), findings, question, step)
        /\ gate.disposition = "continue"
    BY <2>1 DEF GateInv, GateIsFresh
  <2>3. /\ ~ question /\ step < MaxSteps
        /\ gate.missing = MissingSlots(Context(intent), findings) /\ gate.missing # {}
    BY <2>1, <2>2, GateFacts
  <2>4. gate.missing \in SUBSET Slots
    BY <2>3 DEF MissingSlots
  <2>5. action' = Fallback(gate.missing) /\ node' = AfterSpecialist(action')
    BY <1>2, <2>1, <2>2, <2>3, BudgetAssumption DEF RunSpecialist, ChooseCaseAction, PlannedCase, TypeOK
  <2>6. action' # "finish" /\ node' = "case_action"
    BY <2>3, <2>4, <2>5, FallbackFacts DEF AfterSpecialist
  <2>7. Done' = Done /\ Done \in Int /\ step <= Done
    BY <2>1 DEF Done, One, TypeOK, Findings, RulesInv
  <2>. QED
    BY <2>1, <2>3, <2>5, <2>6, <2>7 DEF RulesInv, Context
<1>3. CASE CaseAction
  BY <1>3, PlannedActionStep DEF RulesInv, PlannedCase, CaseAction
<1>4. ASSUME UNCHANGED <<case, intent, findings, question, step>>, node # "case_action",
             node' # "case_action", node \notin {"supervisor", "failed"}
      PROVE  RulesInv'
  <2>1. PlannedCase' => PlannedCase
    BY <1>4 DEF PlannedCase
  <2>2. Done' = Done
    BY <1>4 DEF Done
  <2>. QED
    BY <1>4, <2>1, <2>2 DEF RulesInv
<1>5. CASE EvidenceGate \/ FastCommerceSkill \/ RefundAnalyst \/ RiskControl \/ Reply
  BY <1>4, <1>5 DEF EvidenceGate, AfterGate, FastCommerceSkill, RefundAnalyst, RiskControl, Reply,
     investigation, RulesInv, PlannedCase
<1>6. CASE ModelFails
  BY <1>6 DEF ModelFails, RulesInv, PlannedCase
<1>7. CASE TimePasses \/ UNCHANGED vars
  BY <1>7 DEF TimePasses, vars, RulesInv, PlannedCase, Done, Context, investigation
<1>. QED
  BY <1>1, <1>2, <1>3, <1>5, <1>6, <1>7 DEF Next, Advance

\* With a step for every search and for the five other results, the offline plan
\* decides every case that has an order and events, whatever the snapshot: it is never
\* cut short by the step budget (MAX_CASE_STEPS = 10, MAX_POLICY_SEARCHES = 3;
\* deterministic_action, evaluate_evidence).
THEOREM RulesSucceed ==
    ASSUME MaxSearches + 5 <= MaxSteps
    PROVE  Spec => []RulesReachTheGoal
<1>1. Init => RulesInv
  BY DEF Init, RulesInv, PlannedCase
<1>2. WorkflowInv /\ RulesInv /\ [Next]_vars => RulesInv'
  BY RulesStep DEF WorkflowInv
<1>3. WorkflowInv /\ RulesInv => RulesReachTheGoal
  <2>. SUFFICES ASSUME WorkflowInv, RulesInv, node = "end", ~ case.model, intent \in Investigated,
                       case.tracking # "none", case.rag => findings.sources
                PROVE  IF Scenario(intent) = "refund" /\ ~ case.attached
                       THEN recommendation = "REQUEST_CUSTOMER_EVIDENCE"
                       ELSE gate.disposition = "ready"
    BY DEF RulesReachTheGoal
  <2>1. /\ gate = EvaluateEvidence(Context(intent), findings, question, step)
        /\ gate.disposition # "continue"
    BY DEF WorkflowInv, GateInv, GateIsFresh, AfterInvestigation
  <2>2. question \in BOOLEAN /\ step \in Nat /\ findings \in Findings /\ findings.searches <= MaxSearches
    BY DEF WorkflowInv, TypeOK, BudgetInv
  <2>3. /\ findings.attached <=> findings.attachments # Unread /\ case.attached
        /\ question => Scenario(intent) = "refund" /\ ~ case.attached
        /\ step <= Done
    BY DEF RulesInv, PlannedCase
  <2>4. CASE question
    BY <2>3, <2>4 DEF WorkflowInv, DecisionInv, Decided, RiskDecision
  <2>5. CASE ~ question
    <3>1. step < MaxSteps
      BY <2>2, <2>3, <2>5, BudgetAssumption DEF Done, One, Findings
    <3>2. ~ SearchesExhausted(Context(intent), findings)
      BY DEF SearchesExhausted, Context
    <3>3. gate.disposition = "ready" /\ MissingSlots(Context(intent), findings) = {}
      BY <2>1, <2>2, <2>5, <3>1, <3>2, GateFacts, BudgetAssumption DEF Gates, Dispositions
    <3>4. Scenario(intent) = "refund" => case.attached
      BY <2>3, <3>3 DEF MissingSlots, Slots, Context
    <3>. QED  BY <3>3, <3>4
  <2>. QED  BY <2>4, <2>5
<1>. QED
  BY <1>1, <1>2, <1>3, WorkflowInvariant, PTL DEF Spec

=============================================================================
