------------------------- MODULE CaseEvidenceProofs -------------------------
(***************************************************************************)
(* What the evidence gate and the planner guarantee, for any case, budgets *)
(* and answers of the model.  Both workflows' proofs rest on these lemmas. *)
(***************************************************************************)
EXTENDS CaseEvidence, TLAPS

\* What each verdict of the gate says.
LEMMA GateFacts ==
    ASSUME NEW c, NEW f, NEW asked \in BOOLEAN, NEW s \in Nat
    PROVE  LET g == EvaluateEvidence(c, f, asked, s) IN
           /\ g \in Gates
           /\ g.missing = MissingSlots(c, f)
           /\ g.disposition = "continue" =>
                 ~ asked /\ ~ SearchesExhausted(c, f) /\ g.missing # {} /\ s < MaxSteps
           /\ g.disposition = "ready" => ~ asked /\ g.missing = {}
           /\ g.disposition = "waiting_customer" <=> asked
           /\ g.disposition = "budget_exhausted" => SearchesExhausted(c, f) \/ s >= MaxSteps
<1>1. MissingSlots(c, f) \in SUBSET Slots
  BY DEF MissingSlots
<1>. QED
  BY <1>1, BudgetAssumption DEF EvaluateEvidence, Gates, Dispositions

\* While the gate lets the investigation go on, the policy is missing only if
\* there is a search left for it.
LEMMA SearchLeft ==
    ASSUME NEW c, NEW f \in Findings, NEW asked \in BOOLEAN, NEW s \in Nat,
           NEW g, g = EvaluateEvidence(c, f, asked, s), g.disposition = "continue"
    PROVE  "policy" \in g.missing => f.searches < MaxSearches
<1>1. g.missing = MissingSlots(c, f) /\ ~ SearchesExhausted(c, f)
  BY GateFacts
<1>2. ASSUME "policy" \in g.missing PROVE f.searches = 0 \/ (c.rag /\ ~ f.sources)
  BY <1>1, <1>2 DEF MissingSlots
<1>3. c.rag /\ ~ f.sources => ~ (f.searches >= MaxSearches)
  BY <1>1, Zenon DEF SearchesExhausted
<1>4. f.searches \in Nat
  BY DEF Findings
<1>5. f.searches = 0 \/ ~ (f.searches >= MaxSearches) => f.searches < MaxSearches
  BY <1>4, BudgetAssumption
<1>. QED
  BY <1>2, <1>3, <1>5

\* The plan ends only when no slot is missing.
LEMMA FallbackFacts ==
    ASSUME NEW missing \in SUBSET Slots
    PROVE  /\ Fallback(missing) = "finish" => missing = {}
           /\ Fallback(missing) = "get_order" => "order" \in missing
           /\ Fallback(missing) = "get_ticket_messages" => "conversation" \in missing
           /\ Fallback(missing) = "analyze_delivery_timeline" => "logistics" \in missing
           /\ Fallback(missing) = "search_policy" => "policy" \in missing
           /\ Fallback(missing) = "inspect_customer_evidence" => "evidence_status" \in missing
           /\ Fallback(missing) = "ask_customer" =>
                 "evidence" \in missing /\ "evidence_status" \notin missing
BY DEF Fallback, Slots

\* Whatever a model answers, a specialist acts within the vocabulary, and it
\* does not search beyond the limit.
LEMMA ActionFacts ==
    ASSUME NEW f \in Findings, NEW g \in Gates, NEW s \in Nat, NEW model \in BOOLEAN,
           "policy" \in g.missing => f.searches < MaxSearches,
           NEW a \in ChooseCaseAction(f, g, s, model)
    PROVE  a \in Actions /\ (a = "search_policy" => f.searches < MaxSearches)
<1>1. Fallback(g.missing) \in Actions
  BY DEF Fallback, Actions
<1>2. Fallback(g.missing) = "search_policy" => f.searches < MaxSearches
  BY DEF Fallback
<1>. QED
  BY <1>1, <1>2 DEF ChooseCaseAction, Actions

\* The same after the gate has let the investigation go on.
LEMMA PlannerFacts ==
    ASSUME NEW c \in Contexts, NEW f \in Findings, NEW s \in Nat, NEW model \in BOOLEAN,
           NEW g, g = EvaluateEvidence(c, f, FALSE, s), g.disposition = "continue",
           NEW a \in ChooseCaseAction(f, g, s, model)
    PROVE  a \in Actions /\ (a = "search_policy" => f.searches < MaxSearches)
<1>1. g \in Gates
  BY GateFacts
<1>2. "policy" \in g.missing => f.searches < MaxSearches
  BY SearchLeft
<1>. QED
  BY <1>1, <1>2, ActionFacts
=============================================================================
