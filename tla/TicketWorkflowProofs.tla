------------------------ MODULE TicketWorkflowProofs ------------------------
(***************************************************************************)
(* Theorems about TicketWorkflow for any tickets, workers, budgets and     *)
(* limits, and for any number of failures.                                 *)
(***************************************************************************)
EXTENDS TicketWorkflow, CaseEvidenceProofs, SequenceTheorems

\* What the rows say while a task has the ticket, and which tasks there can be.
QueueInv ==
    /\ \A v, w \in Workers : stage[v] # "idle" /\ stage[w] # "idle" => v = w
    /\ \A w \in Workers : stage[w] = "scheduled" => job.status = "pending"
    /\ \A w \in Workers : stage[w] \notin {"idle", "scheduled"} => job.status = "running"
    /\ process = "down" => \A w \in Workers : stage[w] = "idle"
    /\ process # "down" /\ Unfinished =>
          (\E w \in Workers : stage[w] # "idle") \/ "worker" \in lost

\* A turn has had its effects.
Settled ==
    \/ job.status = "completed"
    \/ \E w \in Workers : stage[w] = "committed"
    \/ "completion" \in lost

\* Only a settled turn leaves a question or an open approval, and the resumed
\* case it had is over unless the ticket was decided meanwhile.
PauseInv ==
    /\ caseState.status = "waiting_customer" => Settled
    /\ \A w \in Workers : stage[w] = "committed" /\ caseState.status = "active" => ticket \in Decided
    /\ ReplyIsHandled
    /\ ConversationAlternates

ApprovalInv == OpenApprovals # {} => Settled

\* What makes a coupon justified, if its sources are these.
Grounded(sources) ==
    /\ case.rag => sources
    /\ Justified \/ (caseState.status = "active" /\ FactsJustify(caseState.kept.facts))

\* Facts that justify a coupon are true, or they are those of the resumed case.
Supported(facts) ==
    FactsJustify(facts) =>
        Justified \/ (caseState.status = "active" /\ facts = caseState.kept.facts)

\* A case is within its budgets.
KeptInv(k) == k.step <= MaxSteps /\ k.findings.searches <= MaxSearches

\* What holds of a turn wherever it stands in the graph.
Sound(t) ==
    /\ KeptInv(t.kept) /\ Supported(t.kept.facts)
    /\ t.node = "supervisor" =>
          ~ t.question /\ (t.resumed \/ t.kept = [NothingSaved EXCEPT !.intent = t.kept.intent])
    /\ t.node = "specialist" =>
          t.kept.step < MaxSteps
          /\ ("policy" \in t.gate.missing => t.kept.findings.searches < MaxSearches)
    /\ t.node = "case_action" /\ t.action = "search_policy" =>
          t.kept.findings.searches < MaxSearches
    /\ t.decision = "request_coupon_approval" => Grounded(t.kept.findings.sources)

TurnInv ==
    /\ \A w \in Workers : Sound(turn[w])
    /\ \A w \in Workers : stage[w] # "graph" => turn[w] = NewTurn
    /\ KeptInv(caseState.kept)

-----------------------------------------------------------------------------
(* Types.                                                                  *)

LEMMA Constants ==
    /\ NothingFound \in Findings /\ NoGate \in Gates /\ NoFacts \in Facts
    /\ NothingSaved \in Saved /\ NewTurn \in Turns
<1>1. NothingFound \in Findings /\ NoGate \in Gates /\ NoFacts \in Facts
  BY DEF NothingFound, Findings, Unread, NoGate, Gates, Dispositions, NoFacts, Facts
<1>2. NothingSaved \in Saved
  BY <1>1 DEF NothingSaved, Saved, Intents
<1>. QED
  BY <1>1, <1>2 DEF NewTurn, Turns, Nodes, Actions, Decisions

LEMMA TypeInit == Init => TypeOK
<1>. SUFFICES ASSUME Init PROVE TypeOK
  OBVIOUS
<1>1. approvals \in Seq(Approvals) /\ lost \subseteq {"completion", "worker"}
  BY DEF Init
<1>2. stage \in [Workers -> Stages] /\ turn \in [Workers -> Turns]
  BY Constants DEF Init, Stages
<1>3. /\ caseState \in [status : {"none", "active", "waiting_customer", "completed"}, kept : Saved]
      /\ job \in [status : JobStatuses, attempts : Nat]
  BY Constants DEF Init, JobStatuses
<1>. QED
  BY <1>1, <1>2, <1>3, CasesAssumption DEF Init, TypeOK, TicketStatuses

\* The order's truth now, read as a timeline.
LEMMA TimelineFacts ==
    ASSUME TypeOK
    PROVE  /\ case \in CaseRecords
           /\ Timeline \in Facts
           /\ Supported(Timeline)
<1>1. case \in CaseRecords /\ promisePassed \in BOOLEAN
  BY DEF TypeOK
<1>2. Late(case, promisePassed) \in BOOLEAN /\ Delivered \in BOOLEAN
  BY <1>1 DEF Late, Delivered
<1>3. case.completed \in BOOLEAN
  BY <1>1 DEF CaseRecords
<1>. QED
  BY <1>1, <1>2, <1>3 DEF Timeline, Facts, Supported, FactsJustify, Justified

\* What a tool returned is a finding; only a search counts as one.
LEMMA ObservedFacts ==
    ASSUME TypeOK, NEW a \in Actions, NEW f \in Findings, NEW found \in BOOLEAN
    PROVE  /\ Observed(a, f, found) \in Findings
           /\ Observed(a, f, found).searches
                = IF a = "search_policy" THEN f.searches + 1 ELSE f.searches
           /\ f.sources => Observed(a, f, found).sources
<1>1. Timeline.event \in BOOLEAN
  BY TimelineFacts DEF Facts
<1>2. (f.sources \/ found) \in BOOLEAN /\ f.searches + 1 \in Nat
  BY DEF Findings
<1>3. messages \in Nat /\ attached \in BOOLEAN
  BY DEF TypeOK
<1>4. CASE a = "search_policy"
  BY <1>2, <1>4 DEF Observed, Findings
<1>5. CASE a # "search_policy"
  BY <1>1, <1>3, <1>5 DEF Observed, Findings
<1>. QED
  BY <1>4, <1>5

-----------------------------------------------------------------------------
(* A turn in the graph.                                                    *)

\* Time cannot make a turn unsound while its order and its case stay the same.
LEMMA SoundStays ==
    ASSUME TypeOK, UNCHANGED <<case, caseState>>, promisePassed => promisePassed', NEW t
    PROVE  Sound(t) => Sound(t)'
<1>1. Justified => Justified'
  BY DEF Justified, Late, Delivered
<1>2. ASSUME NEW f PROVE Supported(f) => Supported(f)'
  BY <1>1 DEF Supported, FactsJustify
<1>3. ASSUME NEW b PROVE Grounded(b) => Grounded(b)'
  BY <1>1 DEF Grounded, FactsJustify
<1>. QED
  BY <1>2, <1>3 DEF Sound, KeptInv

\* A new turn and an empty case are sound.
LEMMA NewIsSound == Sound(NewTurn) /\ Sound(NewTurn)' /\ KeptInv(NothingSaved)
<1>1. /\ NothingSaved.step = 0 /\ NothingSaved.findings.searches = 0
      /\ NothingSaved.facts.event = FALSE
  BY DEF NothingSaved, NothingFound, NoFacts
<1>2. KeptInv(NothingSaved)
  BY <1>1, BudgetAssumption DEF KeptInv
<1>3. NothingSaved = [NothingSaved EXCEPT !.intent = NothingSaved.intent]
  BY DEF NothingSaved
<1>4. ~ FactsJustify(NothingSaved.facts)
  BY <1>1 DEF FactsJustify
<1>5. Supported(NothingSaved.facts) /\ Supported(NothingSaved.facts)'
  BY <1>4 DEF Supported
<1>. QED
  BY <1>2, <1>3, <1>5 DEF Sound, NewTurn, KeptInv

\* A task moves to a well formed, sound turn wherever it stands in the graph.
Moves(w) == \E t \in Turns : Sound(t) /\ Become(w, t)

LEMMA SupervisorMoves ==
    ASSUME TypeOK, TurnInv, NEW w \in Workers, Supervisor(w) PROVE Moves(w)
<1>1. turn[w] \in Turns /\ Sound(turn[w]) /\ turn[w].node = "supervisor"
  BY DEF TypeOK, TurnInv, Supervisor, At
<1>2. turn[w].kept \in Saved
  BY <1>1 DEF Turns
<1>3. PICK i \in IF turn[w].resumed THEN {turn[w].kept.intent} ELSE Classifications(case) :
        Become(w, [turn[w] EXCEPT
              !.node = SelectRoute(i, turn[w].resumed),
              !.kept = [@ EXCEPT !.intent = i],
              !.gate = IF turn[w].resumed THEN @
                       ELSE EvaluateEvidence(Context(i), NothingFound, FALSE, 0)])
  BY DEF Supervisor
<1>4. PICK g : g = IF turn[w].resumed THEN turn[w].gate
                   ELSE EvaluateEvidence(Context(i), NothingFound, FALSE, 0)
  OBVIOUS
<1>5. PICK k : k = [turn[w].kept EXCEPT !.intent = i]
  OBVIOUS
<1>6. PICK t : t = [turn[w] EXCEPT !.node = SelectRoute(i, turn[w].resumed),
                                   !.kept = k, !.gate = g]
  OBVIOUS
<1>7. Become(w, t)
  BY <1>3, <1>4, <1>5, <1>6
<1>8. i \in Intents
  BY <1>2, TimelineFacts DEF Saved, Classifications, CaseRecords
<1>9. k \in Saved /\ k.step = turn[w].kept.step /\ k.findings = turn[w].kept.findings
      /\ k.facts = turn[w].kept.facts
  BY <1>2, <1>5, <1>8 DEF Saved
<1>10. g \in Gates
  BY <1>1, <1>4, GateFacts DEF Turns
<1>11. t \in Turns
  BY <1>1, <1>6, <1>9, <1>10 DEF Turns, SelectRoute, Nodes
<1>12. KeptInv(k)
  BY <1>1, <1>9 DEF Sound, KeptInv
<1>13. ASSUME t.node = "specialist"
       PROVE  k.step < MaxSteps /\ ("policy" \in g.missing => k.findings.searches < MaxSearches)
  <2>1. ~ turn[w].resumed
    <3>1. t.node = SelectRoute(i, turn[w].resumed) /\ turn[w].resumed \in BOOLEAN
      BY <1>1, <1>6 DEF Turns
    <3>2. SelectRoute(i, TRUE) = "evidence_gate"
      BY DEF SelectRoute
    <3>3. turn[w].resumed = TRUE \/ turn[w].resumed = FALSE
      BY <3>1
    <3>. QED
      BY <1>13, <3>1, <3>2, <3>3
  <2>2. k.findings = NothingFound /\ k.step = 0
    BY <1>1, <1>9, <2>1 DEF Sound, NothingSaved
  <2>. QED
    BY <2>2, BudgetAssumption DEF NothingFound
<1>14. t.kept = k /\ t.gate = g /\ t.decision = turn[w].decision
       /\ t.node = SelectRoute(i, turn[w].resumed)
  BY <1>1, <1>6 DEF Turns
<1>15. Grounded(turn[w].kept.findings.sources) <=> Grounded(k.findings.sources)
  BY <1>9
<1>16. t.node \notin {"supervisor", "case_action"}
  BY <1>14 DEF SelectRoute
<1>17. Supported(k.facts)
  BY <1>1, <1>9 DEF Sound
<1>18. Sound(t)
  BY <1>1, <1>12, <1>13, <1>14, <1>15, <1>16, <1>17 DEF Sound
<1>. QED
  BY <1>7, <1>11, <1>18 DEF Moves

LEMMA FastMoves ==
    ASSUME TypeOK, TurnInv, NEW w \in Workers, OrderLogisticsFast(w) PROVE Moves(w)
<1>1. turn[w] \in Turns /\ Sound(turn[w]) /\ turn[w].kept \in Saved
  BY DEF TypeOK, TurnInv, Turns
<1>2. PICK k : k = [turn[w].kept EXCEPT !.facts = Timeline]
  OBVIOUS
<1>3. PICK t : t = [turn[w] EXCEPT !.node = "risk_control", !.kept = k]
  OBVIOUS
<1>4. Become(w, t)
  BY <1>2, <1>3 DEF OrderLogisticsFast
<1>5. k \in Saved /\ k.step = turn[w].kept.step /\ k.findings = turn[w].kept.findings
      /\ k.facts = Timeline
  BY <1>1, <1>2, TimelineFacts DEF Saved
<1>6. KeptInv(k) /\ Supported(k.facts)
  BY <1>1, <1>5, TimelineFacts DEF Sound, KeptInv
<1>7. t \in Turns /\ t.kept = k /\ t.node = "risk_control" /\ t.decision = turn[w].decision
  BY <1>1, <1>3, <1>5 DEF Turns, Nodes
<1>8. Sound(t)
  BY <1>1, <1>5, <1>6, <1>7 DEF Sound
<1>. QED
  BY <1>4, <1>7, <1>8 DEF Moves

LEMMA SpecialistMoves ==
    ASSUME TypeOK, TurnInv, NEW w \in Workers, RunSpecialistAgent(w) PROVE Moves(w)
<1>1. /\ turn[w] \in Turns /\ Sound(turn[w]) /\ turn[w].node = "specialist"
      /\ turn[w].kept \in Saved /\ turn[w].gate \in Gates
  BY DEF TypeOK, TurnInv, Turns, RunSpecialistAgent, At
<1>2. PICK a \in ChooseCaseAction(turn[w].kept.findings, turn[w].gate, turn[w].kept.step,
                                  case.model) :
        Become(w, [turn[w] EXCEPT
              !.action = a,
              !.kept = [turn[w].kept EXCEPT !.step = turn[w].kept.step + 1],
              !.node = IF a = "finish" THEN "evidence_gate" ELSE "case_action"])
  BY DEF RunSpecialistAgent
<1>3. PICK k : k = [turn[w].kept EXCEPT !.step = turn[w].kept.step + 1]
  OBVIOUS
<1>4. PICK t : t = [turn[w] EXCEPT !.action = a, !.kept = k,
                       !.node = IF a = "finish" THEN "evidence_gate" ELSE "case_action"]
  OBVIOUS
<1>5. Become(w, t)
  BY <1>2, <1>3, <1>4
<1>6. case.model \in BOOLEAN
  BY TimelineFacts DEF CaseRecords
<1>7. /\ turn[w].kept.findings \in Findings /\ turn[w].kept.step \in Nat
      /\ turn[w].kept.step < MaxSteps
      /\ "policy" \in turn[w].gate.missing => turn[w].kept.findings.searches < MaxSearches
  BY <1>1 DEF Sound, Saved
<1>8. a \in Actions /\ (a = "search_policy" => turn[w].kept.findings.searches < MaxSearches)
  BY <1>1, <1>2, <1>6, <1>7, ActionFacts
<1>9. /\ k \in Saved /\ k.step = turn[w].kept.step + 1
      /\ k.findings = turn[w].kept.findings /\ k.facts = turn[w].kept.facts
  BY <1>1, <1>3 DEF Saved
<1>10. k.step <= MaxSteps
  BY <1>7, <1>9, BudgetAssumption
<1>11. KeptInv(k) /\ Supported(k.facts)
  BY <1>1, <1>9, <1>10 DEF Sound, KeptInv
<1>12. /\ t \in Turns /\ t.kept = k /\ t.action = a /\ t.decision = turn[w].decision
       /\ t.node \in {"evidence_gate", "case_action"}
  BY <1>1, <1>4, <1>8, <1>9 DEF Turns, Nodes
<1>13. Sound(t)
  BY <1>1, <1>8, <1>9, <1>11, <1>12 DEF Sound
<1>. QED
  BY <1>5, <1>12, <1>13 DEF Moves

LEMMA CaseActionMoves ==
    ASSUME TypeOK, TurnInv, NEW w \in Workers, CaseAction(w) PROVE Moves(w)
<1>1. /\ turn[w] \in Turns /\ Sound(turn[w]) /\ turn[w].node = "case_action"
      /\ turn[w].kept \in Saved /\ turn[w].action \in Actions
  BY DEF TypeOK, TurnInv, Turns, CaseAction, At
<1>2. PICK a : a = turn[w].action
  OBVIOUS
<1>3. PICK found \in BOOLEAN :
        Become(w, [turn[w] EXCEPT
              !.node = "evidence_gate",
              !.action = "finish",
              !.question = @ \/ a = "ask_customer",
              !.kept = [turn[w].kept EXCEPT
                  !.findings = Observed(a, turn[w].kept.findings, found),
                  !.facts = IF a = "analyze_delivery_timeline" THEN Timeline
                            ELSE turn[w].kept.facts]])
  BY <1>2 DEF CaseAction
<1>4. PICK f : f = Observed(a, turn[w].kept.findings, found)
  OBVIOUS
<1>5. PICK k : k = [turn[w].kept EXCEPT
                      !.findings = f,
                      !.facts = IF a = "analyze_delivery_timeline" THEN Timeline
                                ELSE turn[w].kept.facts]
  OBVIOUS
<1>6. PICK q : q = (turn[w].question \/ a = "ask_customer")
  OBVIOUS
<1>7. PICK t : t = [turn[w] EXCEPT !.node = "evidence_gate", !.action = "finish",
                                   !.question = q, !.kept = k]
  OBVIOUS
<1>8. Become(w, t)
  BY <1>3, <1>4, <1>5, <1>6, <1>7
<1>9. turn[w].kept.findings \in Findings /\ turn[w].question \in BOOLEAN
  BY <1>1 DEF Saved, Turns
<1>10. /\ f \in Findings
       /\ f.searches = IF a = "search_policy" THEN turn[w].kept.findings.searches + 1
                       ELSE turn[w].kept.findings.searches
       /\ turn[w].kept.findings.sources => f.sources
  BY <1>1, <1>2, <1>4, <1>9, ObservedFacts
<1>11. /\ k \in Saved /\ k.step = turn[w].kept.step /\ k.findings = f
       /\ k.facts = IF a = "analyze_delivery_timeline" THEN Timeline ELSE turn[w].kept.facts
  BY <1>1, <1>5, <1>10, TimelineFacts DEF Saved
<1>12. f.searches <= MaxSearches
  <2>1. /\ a = "search_policy" => turn[w].kept.findings.searches < MaxSearches
        /\ turn[w].kept.findings.searches <= MaxSearches
    BY <1>1, <1>2 DEF Sound, KeptInv
  <2>2. turn[w].kept.findings.searches \in Nat
    BY <1>9 DEF Findings
  <2>. QED
    BY <1>10, <2>1, <2>2, BudgetAssumption
<1>13. KeptInv(k) /\ Supported(k.facts)
  BY <1>1, <1>11, <1>12, TimelineFacts DEF Sound, KeptInv
<1>14. q \in BOOLEAN
  BY <1>6
<1>15. /\ t \in Turns /\ t.kept = k /\ t.node = "evidence_gate" /\ t.decision = turn[w].decision
  BY <1>1, <1>7, <1>11, <1>14 DEF Turns, Nodes, Actions
<1>16. Grounded(turn[w].kept.findings.sources) => Grounded(k.findings.sources)
  BY <1>10, <1>11 DEF Grounded
<1>17. Sound(t)
  BY <1>1, <1>13, <1>15, <1>16 DEF Sound
<1>. QED
  BY <1>8, <1>15, <1>17 DEF Moves

LEMMA EvidenceGateMoves ==
    ASSUME TypeOK, TurnInv, NEW w \in Workers, EvidenceGate(w) PROVE Moves(w)
<1>1. turn[w] \in Turns /\ Sound(turn[w]) /\ turn[w].kept \in Saved /\ turn[w].question \in BOOLEAN
  BY DEF TypeOK, TurnInv, Turns
<1>2. PICK k : k = turn[w].kept
  OBVIOUS
<1>3. PICK c : c = Context(k.intent)
  OBVIOUS
<1>4. PICK g : g = EvaluateEvidence(c, k.findings, turn[w].question, k.step)
  OBVIOUS
<1>5. PICK t : t = [turn[w] EXCEPT !.gate = g, !.node = AfterEvidenceGate(g.disposition, k.intent)]
  OBVIOUS
<1>6. Become(w, t)
  BY <1>2, <1>3, <1>4, <1>5 DEF EvidenceGate
<1>7. k \in Saved /\ k.findings \in Findings /\ k.step \in Nat
  BY <1>1, <1>2 DEF Saved
<1>8. g \in Gates /\ (g.disposition = "continue" => k.step < MaxSteps)
  BY <1>1, <1>4, <1>7, GateFacts
<1>9. g.disposition = "continue" => ("policy" \in g.missing => k.findings.searches < MaxSearches)
  BY <1>1, <1>4, <1>7, SearchLeft
<1>10. /\ t \in Turns /\ t.kept = k /\ t.gate = g /\ t.decision = turn[w].decision
       /\ t.node = AfterEvidenceGate(g.disposition, k.intent)
  BY <1>1, <1>2, <1>5, <1>8 DEF Turns, Nodes, AfterEvidenceGate
<1>11. t.node = "specialist" => g.disposition = "continue"
  BY <1>10 DEF AfterEvidenceGate
<1>12. t.node \notin {"supervisor", "case_action"}
  BY <1>10 DEF AfterEvidenceGate
<1>13. Sound(t)
  BY <1>1, <1>2, <1>8, <1>9, <1>10, <1>11, <1>12 DEF Sound
<1>. QED
  BY <1>6, <1>10, <1>13 DEF Moves

\* Risk control proposes compensation only where it is justified.
LEMMA RiskControlMoves ==
    ASSUME TypeOK, TurnInv, NEW w \in Workers, RiskControl(w) PROVE Moves(w)
<1>1. turn[w] \in Turns /\ Sound(turn[w]) /\ turn[w].kept \in Saved
  BY DEF TypeOK, TurnInv, Turns
<1>2. PICK k : k = turn[w].kept
  OBVIOUS
<1>3. PICK d : d = RiskDecision(k.intent, k.facts, k.findings.sources)
  OBVIOUS
<1>4. PICK t : t = [turn[w] EXCEPT !.node = "reply", !.decision = d]
  OBVIOUS
<1>5. Become(w, t)
  BY <1>2, <1>3, <1>4 DEF RiskControl
<1>6. d \in Decisions
  BY <1>3 DEF RiskDecision, Decisions
<1>7. t \in Turns /\ t.kept = k /\ t.node = "reply" /\ t.decision = d
  BY <1>1, <1>2, <1>4, <1>6 DEF Turns, Nodes
<1>8. d = "request_coupon_approval" => (case.rag => k.findings.sources) /\ FactsJustify(k.facts)
  BY <1>3 DEF RiskDecision, FactsJustify
<1>9. KeptInv(k) /\ Supported(k.facts)
  BY <1>1, <1>2 DEF Sound
<1>10. d = "request_coupon_approval" => Grounded(k.findings.sources)
  BY <1>8, <1>9 DEF Supported, Grounded
<1>11. Sound(t)
  BY <1>7, <1>9, <1>10 DEF Sound
<1>. QED
  BY <1>5, <1>7, <1>11 DEF Moves

\* The nodes that change nothing else.
LEMMA PlainMoves ==
    ASSUME TypeOK, TurnInv, NEW w \in Workers, RefundReviewAnalyst(w) \/ Reply(w) PROVE Moves(w)
<1>1. turn[w] \in Turns /\ Sound(turn[w])
  BY DEF TypeOK, TurnInv
<1>2. PICK n \in {"risk_control", "end"} : Become(w, [turn[w] EXCEPT !.node = n])
  BY DEF RefundReviewAnalyst, Reply
<1>3. PICK t : t = [turn[w] EXCEPT !.node = n]
  OBVIOUS
<1>4. t \in Turns /\ t.kept = turn[w].kept /\ t.node = n /\ t.decision = turn[w].decision
  BY <1>1, <1>3 DEF Turns, Nodes
<1>5. Sound(t)
  BY <1>1, <1>4 DEF Sound
<1>. QED
  BY <1>2, <1>3, <1>4, <1>5 DEF Moves

LEMMA GraphMoves ==
    ASSUME TypeOK, TurnInv, NEW w \in Workers, Graph(w)
    PROVE  stage[w] = "graph" /\ Moves(w)
<1>1. stage[w] = "graph"
  BY DEF Graph, Supervisor, OrderLogisticsFast, RunSpecialistAgent, CaseAction, EvidenceGate,
         RefundReviewAnalyst, RiskControl, Reply, At
<1>2. Moves(w)
  BY SupervisorMoves, FastMoves, SpecialistMoves, CaseActionMoves, EvidenceGateMoves,
     RiskControlMoves, PlainMoves DEF Graph
<1>. QED
  BY <1>1, <1>2

-----------------------------------------------------------------------------
(* The job, its tasks and the process.                                     *)

LEMMA QueueInit == Init => QueueInv
BY DEF Init, QueueInv, Unfinished

\* Queueing the job again, for a retry or for a reply.
LEMMA EnqueueQueue ==
    ASSUME TypeOK, QueueInv, NEW resume \in BOOLEAN, process = "up", Enqueue(resume),
           UNCHANGED <<process, lost>>
    PROVE  QueueInv'
<1>1. ~ Unfinished /\ job' = [status |-> "pending", attempts |-> IF resume THEN 0 ELSE job.attempts]
  BY DEF Enqueue, MayEnqueue
<1>2. PICK w \in Workers : stage[w] = "idle" /\ stage' = [stage EXCEPT ![w] = "scheduled"]
  BY DEF Enqueue
<1>3. \A v \in Workers : stage[v] = "idle"
  BY <1>1 DEF QueueInv, Unfinished
<1>4. job'.status = "pending"
  BY <1>1
<1>5. \A v \in Workers : stage'[v] = IF v = w THEN "scheduled" ELSE "idle"
  BY <1>2, <1>3 DEF TypeOK
<1>. QED
  BY <1>4, <1>5 DEF QueueInv

\* A task moves on with the job as it is or claims, ends or fails it.
LEMMA TaskQueue ==
    ASSUME TypeOK, QueueInv, NEW w \in Workers,
           \/ Claim(w) \/ StartTurn(w) \/ CommitQuestion(w) \/ CommitDecision(w)
           \/ Finish(w) \/ RecordFailure(w) \/ Raise(w) \/ LoseWorker(w)
    PROVE  QueueInv'
<1>1. stage[w] # "idle"
  BY DEF Claim, StartTurn, CommitQuestion, CommitDecision, At, Finish, RecordFailure, Raise, LoseWorker
<1>2. /\ \A v \in Workers \ {w} : stage[v] = "idle"
      /\ stage[w] = "scheduled" => job.status = "pending"
      /\ stage[w] # "scheduled" => job.status = "running"
      /\ process # "down"
  BY <1>1 DEF QueueInv
<1>3. CASE Claim(w)
  <2>1. stage[w] = "scheduled" /\ stage' = [stage EXCEPT ![w] = "claimed"]
        /\ job' = [status |-> "running", attempts |-> job.attempts + 1] /\ process' = process
    BY <1>2, <1>3 DEF Claim
  <2>2. job'.status = "running"
    BY <2>1
  <2>. QED
    BY <1>2, <2>1, <2>2 DEF QueueInv, TypeOK
<1>4. CASE StartTurn(w) \/ CommitQuestion(w) \/ CommitDecision(w) \/ Raise(w)
  <2>1. PICK s \in {"graph", "committed", "failing"} : stage' = [stage EXCEPT ![w] = s]
    BY <1>4 DEF StartTurn, CommitQuestion, CommitDecision, Commit, Raise
  <2>2. job' = job /\ process' = process /\ stage[w] # "scheduled"
    BY <1>4 DEF StartTurn, CommitQuestion, CommitDecision, Commit, Raise, At, rows
  <2>. QED
    BY <1>2, <2>1, <2>2 DEF QueueInv, TypeOK
<1>5. CASE Finish(w) \/ RecordFailure(w)
  <2>1. PICK s \in {"completed", "failed"} : job' = [job EXCEPT !.status = s]
    BY <1>5 DEF Finish, RecordFailure
  <2>2. stage' = [stage EXCEPT ![w] = "idle"]
    BY <1>5 DEF Finish, RecordFailure
  <2>3. job'.status = s
    BY <2>1 DEF TypeOK
  <2>4. \A v \in Workers : stage'[v] = "idle"
    BY <1>2, <2>2 DEF TypeOK
  <2>5. ~ Unfinished'
    BY <2>3 DEF Unfinished
  <2>. QED
    BY <2>4, <2>5 DEF QueueInv
<1>6. CASE LoseWorker(w)
  <2>1. stage' = [stage EXCEPT ![w] = "idle"] /\ lost' = lost \cup {"worker"}
    BY <1>6 DEF LoseWorker
  <2>2. \A v \in Workers : stage'[v] = "idle"
    BY <1>2, <2>1 DEF TypeOK
  <2>. QED
    BY <2>1, <2>2 DEF QueueInv
<1>. QED
  BY <1>3, <1>4, <1>5, <1>6

\* At most one task has the ticket, and an unfinished job has one, whatever
\* fails and whenever the process stops.
LEMMA QueueStep == TypeOK /\ TurnInv /\ QueueInv /\ [Next]_vars => QueueInv'
<1>. SUFFICES ASSUME TypeOK, TurnInv, QueueInv, [Next]_vars PROVE QueueInv'
  OBVIOUS
<1>1. ASSUME UNCHANGED <<job, stage, process, lost>> PROVE QueueInv'
  BY <1>1 DEF QueueInv, Unfinished
<1>2. ASSUME NEW w \in Workers, Work(w) \/ Raise(w) \/ LoseWorker(w) PROVE QueueInv'
  <2>1. CASE Graph(w)
    BY <1>1, <2>1, GraphMoves DEF Moves, Become, rows
  <2>. QED
    BY <1>2, <2>1, TaskQueue DEF Work
<1>3. CASE Crash
  BY <1>3 DEF Crash, QueueInv
<1>4. CASE Restart
  <2>1. \A v \in Workers : stage[v] = "idle"
    BY <1>4 DEF Restart, QueueInv
  <2>2. CASE Recoverable
    <3>1. job' = [job EXCEPT !.status = "pending"]
      BY <1>4, <2>2 DEF Restart
    <3>2. PICK w \in Workers : stage' = [stage EXCEPT ![w] = "scheduled"]
      BY <1>4, <2>2 DEF Restart
    <3>3. job'.status = "pending"
      BY <3>1 DEF TypeOK
    <3>4. process' = "recovering"
      BY <1>4, <2>2 DEF Restart
    <3>. QED
      BY <2>1, <3>2, <3>3, <3>4 DEF QueueInv, TypeOK
  <2>3. CASE ~ Recoverable
    BY <1>4, <2>1, <2>3 DEF Restart, QueueInv, Recoverable, Unfinished
  <2>. QED
    BY <2>2, <2>3
<1>5. CASE Serve
  <2>1. UNCHANGED <<job, stage, lost>> /\ process = "recovering" /\ process' = "up"
    BY <1>5 DEF Serve, rows
  <2>. QED
    BY <2>1 DEF QueueInv, Unfinished
<1>6. CASE Requests
  <2>1. CASE Process
    BY <2>1, EnqueueQueue DEF Process
  <2>2. CASE AddCustomerMessage
    BY <2>2, EnqueueQueue DEF AddCustomerMessage
  <2>3. ASSUME NEW i \in DOMAIN approvals,
               ApproveCoupon(i) \/ RejectApprovalTask(i) \/ AssignRefundReview(i) \/ ReviewRefund(i)
        PROVE  QueueInv'
    BY <1>1, <2>3 DEF ApproveCoupon, RejectApprovalTask, AssignRefundReview, ReviewRefund, Decide
  <2>. QED
    BY <1>6, <2>1, <2>2, <2>3 DEF Requests
<1>7. CASE TimePasses \/ OrderChanges
  BY <1>1, <1>7 DEF TimePasses, OrderChanges, rows
<1>8. CASE UNCHANGED vars
  BY <1>1, <1>8 DEF vars, rows
<1>. QED
  BY <1>2, <1>3, <1>4, <1>5, <1>6, <1>7, <1>8 DEF Next

-----------------------------------------------------------------------------
(* What a step does to the rows.                                           *)

\* An employee gives the i-th approval the status s.
Review(i, s) ==
    /\ s \in {"in_review", "approved", "rejected"}
    /\ approvals[i].status \in {"pending", "in_review"}
    /\ s = "in_review" => approvals[i].type = "refund_review"
    /\ approvals' = [approvals EXCEPT ![i].status = s]
    /\ ticket' = IF s = "in_review" THEN "escalated" ELSE "resolved"
    /\ process = "up"
    /\ UNCHANGED <<world, job, caseState, messages, attached, questions, process, stage, turn,
                   lost, faults>>

LEMMA ReviewFacts ==
    ASSUME TypeOK, NEW i \in DOMAIN approvals,
           ApproveCoupon(i) \/ RejectApprovalTask(i) \/ AssignRefundReview(i) \/ ReviewRefund(i)
    PROVE  \E s \in {"in_review", "approved", "rejected"} : Review(i, s)
<1>1. CASE ApproveCoupon(i)
  BY <1>1 DEF ApproveCoupon, Decide, Review
<1>2. CASE RejectApprovalTask(i)
  BY <1>2 DEF RejectApprovalTask, Decide, Review
<1>3. CASE AssignRefundReview(i)
  BY <1>3 DEF AssignRefundReview, Decide, Review
<1>4. CASE ReviewRefund(i)
  BY <1>4 DEF ReviewRefund, Decide, Review
<1>. QED
  BY <1>1, <1>2, <1>3, <1>4

\* The other approvals stay as they are, and this one keeps its kind.
LEMMA ReviewRows ==
    ASSUME TypeOK, NEW i \in DOMAIN approvals, NEW s, Review(i, s)
    PROVE  /\ approvals' \in Seq(Approvals) /\ DOMAIN approvals' = DOMAIN approvals
           /\ Len(approvals') = Len(approvals)
           /\ \A j \in DOMAIN approvals :
                 /\ approvals[j] \in Approvals
                 /\ approvals'[j].type = approvals[j].type
                 /\ approvals'[j].sources = approvals[j].sources
                 /\ approvals'[j].status = IF j = i THEN s ELSE approvals[j].status
<1>1. approvals \in Seq(Approvals)
  BY DEF TypeOK
<1>2. \A j \in DOMAIN approvals : approvals[j] \in Approvals
  BY <1>1
<1>3. PICK a : a = [approvals[i] EXCEPT !.status = s]
  OBVIOUS
<1>4. /\ a \in Approvals /\ a.type = approvals[i].type /\ a.sources = approvals[i].sources
      /\ a.status = s
  BY <1>2, <1>3 DEF Approvals, Review
<1>5. approvals' = [approvals EXCEPT ![i] = a]
  BY <1>3 DEF Review
<1>6. approvals' \in Seq(Approvals) /\ Len(approvals') = Len(approvals)
  BY <1>1, <1>4, <1>5, ExceptSeq, LenProperties
<1>7. DOMAIN approvals' = DOMAIN approvals
      /\ \A j \in DOMAIN approvals : approvals'[j] = IF j = i THEN a ELSE approvals[j]
  BY <1>1, <1>5
<1>. QED
  BY <1>2, <1>4, <1>6, <1>7

\* A decision leaves the ticket decided, with a pending approval of the kind
\* that the ticket then shows, or with none.
LEMMA DecisionRows ==
    ASSUME TypeOK, TurnInv, NEW w \in Workers, CommitDecision(w)
    PROVE  /\ \/ approvals' = approvals /\ ticket' \in {"resolved", "escalated"}
              \/ \E a \in Approvals :
                    /\ approvals' = Append(approvals, a) /\ a.status = "pending"
                    /\ ticket' = IF a.type = "refund_review" THEN "escalated" ELSE "pending_approval"
                    /\ a.type = "coupon_compensation" => Grounded(a.sources)
           /\ caseState' \in {caseState, [status |-> "completed", kept |-> NothingSaved]}
<1>1. turn[w] \in Turns /\ Sound(turn[w]) /\ turn[w].kept \in Saved
  BY DEF TypeOK, TurnInv, Turns
<1>2. turn[w].kept.findings.sources \in BOOLEAN /\ turn[w].decision \in Decisions
  BY <1>1 DEF Saved, Findings, Turns
<1>3. caseState' \in {caseState, [status |-> "completed", kept |-> NothingSaved]}
  BY DEF CommitDecision
<1>4. CASE turn[w].decision = "request_coupon_approval"
  <2>1. PICK a : a = [type |-> "coupon_compensation", sources |-> turn[w].kept.findings.sources,
                      status |-> "pending"]
    OBVIOUS
  <2>2. approvals' = Append(approvals, a) /\ ticket' = "pending_approval"
    BY <1>4, <2>1 DEF CommitDecision, StatusOf
  <2>3. a \in Approvals /\ a.type = "coupon_compensation" /\ a.status = "pending"
    BY <1>2, <2>1 DEF Approvals
  <2>4. Grounded(a.sources)
    BY <1>1, <1>4, <2>1 DEF Sound
  <2>. QED
    BY <1>3, <2>2, <2>3, <2>4
<1>5. CASE turn[w].decision = "escalate_to_supervisor"
  <2>1. PICK a : a = [type |-> "refund_review", sources |-> turn[w].kept.findings.sources,
                      status |-> "pending"]
    OBVIOUS
  <2>2. approvals' = Append(approvals, a) /\ ticket' = "escalated"
    BY <1>5, <2>1 DEF CommitDecision, StatusOf
  <2>3. a \in Approvals /\ a.type = "refund_review" /\ a.status = "pending"
    BY <1>2, <2>1 DEF Approvals
  <2>. QED
    BY <1>3, <2>2, <2>3
<1>6. CASE turn[w].decision \notin {"request_coupon_approval", "escalate_to_supervisor"}
  BY <1>3, <1>6 DEF CommitDecision, StatusOf
<1>. QED
  BY <1>4, <1>5, <1>6

-----------------------------------------------------------------------------
(* Types and turns are kept.                                               *)

LEMMA TypeStep == TypeOK /\ TurnInv /\ [Next]_vars => TypeOK'
<1>. SUFFICES ASSUME TypeOK, TurnInv, [Next]_vars PROVE TypeOK'
  OBVIOUS
<1>1. /\ \A w \in Workers, s \in Stages : [stage EXCEPT ![w] = s] \in [Workers -> Stages]
      /\ \A w \in Workers, t \in Turns : [turn EXCEPT ![w] = t] \in [Workers -> Turns]
      /\ \A s \in JobStatuses : [job EXCEPT !.status = s] \in [status : JobStatuses, attempts : Nat]
      /\ job.attempts \in Nat /\ caseState.kept \in Saved
      /\ {"idle", "scheduled", "claimed", "graph", "committed", "failing"} \subseteq Stages
      /\ {"pending", "running", "completed", "failed"} \subseteq JobStatuses
      /\ {"queued", "processing", "failed", "waiting_customer", "pending_approval", "escalated",
          "resolved"} \subseteq TicketStatuses
  BY DEF TypeOK, Stages, JobStatuses, TicketStatuses
<1>2. ASSUME NEW resume \in BOOLEAN, Enqueue(resume)
      PROVE  job' \in [status : JobStatuses, attempts : Nat] /\ ticket' \in TicketStatuses
             /\ stage' \in [Workers -> Stages]
  BY <1>1, <1>2 DEF Enqueue
<1>3. ASSUME NEW w \in Workers, Graph(w) PROVE TypeOK'
  <2>1. PICK t \in Turns : Become(w, t)
    BY <1>3, GraphMoves DEF Moves
  <2>. QED
    BY <1>1, <2>1 DEF Become, TypeOK, world, rows
<1>4. ASSUME NEW w \in Workers, Claim(w) PROVE TypeOK'
  <2>1. job' \in [status : JobStatuses, attempts : Nat] /\ ticket' \in TicketStatuses
    BY <1>1, <1>4 DEF Claim, TypeOK
  <2>2. stage' \in [Workers -> Stages]
    BY <1>1, <1>4 DEF Claim
  <2>. QED
    BY <1>4, <2>1, <2>2 DEF Claim, TypeOK, world
<1>5. ASSUME NEW w \in Workers, StartTurn(w) PROVE TypeOK'
  <2>1. PICK t : t = [turn[w] EXCEPT !.resumed = TRUE, !.kept = caseState.kept]
    OBVIOUS
  <2>2. t \in Turns
    <3>1. turn[w] \in Turns
      BY DEF TypeOK
    <3>. QED
      BY <1>1, <2>1, <3>1 DEF Turns
  <2>3. turn' \in [Workers -> Turns] /\ stage' \in [Workers -> Stages]
    BY <1>1, <1>5, <2>1, <2>2 DEF StartTurn, TypeOK
  <2>. QED
    BY <1>5, <2>3 DEF StartTurn, TypeOK, world, rows
<1>6. ASSUME NEW w \in Workers, CommitQuestion(w) PROVE TypeOK'
  <2>1. turn[w].kept \in Saved
    BY DEF TypeOK, Turns
  <2>2. turn' \in [Workers -> Turns] /\ stage' \in [Workers -> Stages]
    BY <1>1, <1>6, Constants DEF CommitQuestion, Commit
  <2>. QED
    BY <1>1, <1>6, <2>1, <2>2 DEF CommitQuestion, Commit, TypeOK, world
<1>7. ASSUME NEW w \in Workers, CommitDecision(w) PROVE TypeOK'
  <2>1. turn' \in [Workers -> Turns] /\ stage' \in [Workers -> Stages]
    BY <1>1, <1>7, Constants DEF CommitDecision, Commit
  <2>2. /\ approvals' \in Seq(Approvals) /\ ticket' \in TicketStatuses
        /\ caseState' \in [status : {"none", "active", "waiting_customer", "completed"}, kept : Saved]
    <3>1. approvals \in Seq(Approvals)
      BY DEF TypeOK
    <3>2. approvals' \in Seq(Approvals) /\ ticket' \in TicketStatuses
      BY <1>1, <1>7, <3>1, DecisionRows, AppendProperties
    <3>3. caseState' \in {caseState, [status |-> "completed", kept |-> NothingSaved]}
      BY <1>7, DecisionRows
    <3>. QED
      BY <3>2, <3>3, Constants DEF TypeOK
  <2>. QED
    BY <1>7, <2>1, <2>2 DEF CommitDecision, Commit, TypeOK, world
<1>8. ASSUME NEW w \in Workers, Finish(w) \/ RecordFailure(w) PROVE TypeOK'
  <2>1. job' \in [status : JobStatuses, attempts : Nat] /\ stage' \in [Workers -> Stages]
    BY <1>1, <1>8 DEF Finish, RecordFailure
  <2>2. ticket' \in TicketStatuses
    BY <1>1, <1>8 DEF Finish, RecordFailure, TypeOK
  <2>. QED
    BY <1>8, <2>1, <2>2 DEF Finish, RecordFailure, TypeOK, world
<1>9. ASSUME NEW w \in Workers, Raise(w) \/ LoseWorker(w) PROVE TypeOK'
  <2>1. turn' \in [Workers -> Turns] /\ stage' \in [Workers -> Stages] /\ faults' \in Nat
    BY <1>1, <1>9, Constants DEF Raise, LoseWorker, TypeOK
  <2>2. lost' \subseteq {"completion", "worker"} /\ process' \in {"up", "down", "recovering"}
    BY <1>9 DEF Raise, LoseWorker, TypeOK
  <2>. QED
    BY <1>9, <2>1, <2>2 DEF Raise, LoseWorker, TypeOK, world, rows
<1>10. CASE Crash
  <2>1. turn' \in [Workers -> Turns] /\ stage' \in [Workers -> Stages] /\ faults' \in Nat
    BY <1>1, <1>10, Constants DEF Crash, TypeOK
  <2>2. lost' \subseteq {"completion", "worker"}
    BY <1>10 DEF Crash, TypeOK
  <2>. QED
    BY <1>10, <2>1, <2>2 DEF Crash, TypeOK, world, rows
<1>11. CASE Restart
  <2>1. job' \in [status : JobStatuses, attempts : Nat] /\ stage' \in [Workers -> Stages]
    BY <1>1, <1>11 DEF Restart, TypeOK
  <2>. QED
    BY <1>11, <2>1 DEF Restart, TypeOK, world
<1>12. CASE Serve \/ TimePasses \/ OrderChanges \/ UNCHANGED vars
  <2>1. CASE Serve \/ TimePasses \/ UNCHANGED vars
    BY <2>1 DEF Serve, TimePasses, vars, TypeOK, world, rows
  <2>2. CASE OrderChanges
    <3>1. case \in CaseRecords
      BY DEF TypeOK
    <3>2. case' \in CaseRecords
      BY <2>2, <3>1 DEF OrderChanges, CaseRecords
    <3>. QED
      BY <2>2, <3>2 DEF OrderChanges, TypeOK, rows
  <2>. QED
    BY <1>12, <2>1, <2>2
<1>13. CASE Process
  BY <1>2, <1>13 DEF Process, TypeOK, world
<1>14. CASE AddCustomerMessage
  <2>1. /\ caseState' \in [status : {"none", "active", "waiting_customer", "completed"}, kept : Saved]
        /\ messages' \in Nat
    BY <1>14 DEF AddCustomerMessage, TypeOK
  <2>2. attached' \in BOOLEAN
    BY <1>14 DEF AddCustomerMessage, TypeOK
  <2>3. Enqueue(TRUE) /\ UNCHANGED <<world, questions, approvals, process, turn, lost, faults>>
    BY <1>14 DEF AddCustomerMessage
  <2>. QED
    BY <1>2, <2>1, <2>2, <2>3 DEF TypeOK, world
<1>15. ASSUME NEW i \in DOMAIN approvals,
              ApproveCoupon(i) \/ RejectApprovalTask(i) \/ AssignRefundReview(i) \/ ReviewRefund(i)
       PROVE  TypeOK'
  <2>1. PICK s : Review(i, s)
    BY <1>15, ReviewFacts
  <2>. QED
    BY <1>1, <2>1, ReviewRows DEF Review, TypeOK, world
<1>. QED
  BY <1>3, <1>4, <1>5, <1>6, <1>7, <1>8, <1>9, <1>10, <1>11, <1>12, <1>13, <1>14, <1>15
     DEF Next, Work, Requests

\* Lateness does not go away, and an order changes only while no turn runs.
LEMMA WorldStep ==
    TypeOK /\ TurnInv /\ [Next]_vars =>
        (promisePassed => promisePassed') /\ (case' = case \/ OrderChanges)
<1>. SUFFICES ASSUME TypeOK, TurnInv, [Next]_vars
              PROVE  (promisePassed => promisePassed') /\ (case' = case \/ OrderChanges)
  OBVIOUS
<1>1. ASSUME NEW w \in Workers, Graph(w) PROVE UNCHANGED world
  BY <1>1, GraphMoves DEF Moves, Become
<1>2. CASE UNCHANGED world
  BY <1>2 DEF world
<1>3. CASE TimePasses \/ OrderChanges
  BY <1>3 DEF TimePasses, OrderChanges
<1>4. ASSUME NEW i \in DOMAIN approvals,
             ApproveCoupon(i) \/ RejectApprovalTask(i) \/ AssignRefundReview(i) \/ ReviewRefund(i)
      PROVE  UNCHANGED world
  BY <1>4, ReviewFacts DEF Review
<1>. QED
  BY <1>1, <1>2, <1>3, <1>4 DEF Next, Work, Requests, Claim, StartTurn, CommitQuestion,
     CommitDecision, Commit, Finish, RecordFailure, Raise, LoseWorker, Crash, Restart, Serve,
     Process, AddCustomerMessage, vars

LEMMA TurnInit == Init => TurnInv
BY NewIsSound DEF Init, TurnInv

\* A turn's memory and what a paused case keeps stay within the budgets, and the
\* facts of a turn stay true or those of its resumed case.
LEMMA TurnStep == TypeOK /\ QueueInv /\ TurnInv /\ [Next]_vars => TurnInv'
<1>. SUFFICES ASSUME TypeOK, QueueInv, TurnInv, [Next]_vars PROVE TurnInv'
  OBVIOUS
<1>1. Sound(NewTurn)' /\ KeptInv(NothingSaved)
  BY NewIsSound
<1>2. PICK old : old = turn
  OBVIOUS
<1>3. PICK keptCase : keptCase = caseState.kept
  OBVIOUS
<1>4. /\ KeptInv(keptCase)
      /\ \A w \in Workers : Sound(old[w]) /\ KeptInv(old[w].kept)
  BY <1>2, <1>3 DEF TurnInv, Sound
<1>5. ASSUME UNCHANGED <<case, caseState>>, NEW t, Sound(t) PROVE Sound(t)'
  BY <1>5, WorldStep, SoundStays
<1>6. ASSUME \A w \in Workers : turn'[w] = NewTurn, NEW k, KeptInv(k), caseState'.kept = k
      PROVE  TurnInv'
  <2>1. \A w \in Workers : Sound(turn[w])'
    BY <1>1, <1>6
  <2>2. KeptInv(caseState.kept)'
    BY <1>6 DEF KeptInv
  <2>. QED
    BY <1>6, <2>1, <2>2 DEF TurnInv
<1>7. ASSUME UNCHANGED <<turn, caseState, case>>,
             \A w \in Workers : stage'[w] # "graph" => turn'[w] = NewTurn
      PROVE  TurnInv'
  <2>1. \A w \in Workers : Sound(old[w])'
    BY <1>4, <1>5, <1>7
  <2>2. \A w \in Workers : Sound(turn[w])'
    BY <1>2, <1>7, <2>1
  <2>3. KeptInv(caseState.kept)'
    BY <1>3, <1>4, <1>7 DEF KeptInv
  <2>. QED
    BY <1>7, <2>2, <2>3 DEF TurnInv
<1>8. ASSUME NEW w \in Workers, Graph(w) PROVE TurnInv'
  <2>1. PICK t \in Turns : Sound(t) /\ Become(w, t) /\ stage[w] = "graph"
    BY <1>8, GraphMoves DEF Moves
  <2>2. turn' = [old EXCEPT ![w] = t] /\ UNCHANGED <<stage, case, caseState>>
    BY <1>2, <2>1 DEF Become, rows, world
  <2>3. Sound(t)' /\ \A v \in Workers : Sound(old[v])'
    BY <1>4, <1>5, <2>1, <2>2
  <2>4. \A v \in Workers : turn'[v] = IF v = w THEN t ELSE old[v]
    BY <1>2, <2>2 DEF TypeOK
  <2>5. \A v \in Workers : Sound(turn[v])'
    BY <2>3, <2>4
  <2>6. \A v \in Workers : stage'[v] # "graph" => turn'[v] = NewTurn
    BY <1>2, <2>1, <2>2, <2>4 DEF TurnInv
  <2>7. KeptInv(caseState.kept)'
    BY <1>3, <1>4, <2>2 DEF KeptInv
  <2>. QED
    BY <2>5, <2>6, <2>7 DEF TurnInv
<1>9. ASSUME NEW w \in Workers, StartTurn(w) PROVE TurnInv'
  <2>1. UNCHANGED <<case, caseState>> /\ old[w] = NewTurn
    BY <1>2, <1>9 DEF StartTurn, rows, world, TurnInv
  <2>2. CASE turn' = turn
    <3>1. \A v \in Workers : stage'[v] # "graph" => turn'[v] = NewTurn
      BY <1>9, <2>2 DEF StartTurn, TypeOK, TurnInv
    <3>. QED
      BY <1>7, <2>1, <2>2, <3>1
  <2>3. CASE turn' # turn
    <3>1. PICK t : t = [NewTurn EXCEPT !.resumed = TRUE, !.kept = keptCase]
      OBVIOUS
    <3>2. /\ turn' = [turn EXCEPT ![w] = t] /\ stage' = [stage EXCEPT ![w] = "graph"]
          /\ caseState.status = "active"
      BY <1>2, <1>3, <1>9, <2>1, <2>3, <3>1 DEF StartTurn
    <3>3. t.kept = keptCase /\ t.resumed /\ t.node = "supervisor" /\ ~ t.question
          /\ t.decision = "none"
      BY <3>1 DEF NewTurn
    <3>4. Supported(keptCase.facts)'
      BY <1>3, <2>1, <3>2 DEF Supported
    <3>5. Sound(t)'
      BY <1>4, <3>3, <3>4 DEF Sound, KeptInv
    <3>6. \A v \in Workers : Sound(old[v])'
      BY <1>4, <1>5, <2>1
    <3>7. \A v \in Workers : turn'[v] = IF v = w THEN t ELSE old[v]
      BY <1>2, <3>2 DEF TypeOK
    <3>8. \A v \in Workers : Sound(turn[v])'
      BY <3>5, <3>6, <3>7
    <3>9. \A v \in Workers : stage'[v] # "graph" => turn'[v] = NewTurn
      BY <1>2, <3>2, <3>7 DEF TypeOK, TurnInv
    <3>10. KeptInv(caseState.kept)'
      BY <1>3, <1>4, <2>1 DEF KeptInv
    <3>. QED
      BY <3>8, <3>9, <3>10 DEF TurnInv
  <2>. QED
    BY <2>2, <2>3
<1>10. ASSUME NEW w \in Workers, CommitQuestion(w) \/ CommitDecision(w) \/ Raise(w) PROVE TurnInv'
  <2>1. turn' = [turn EXCEPT ![w] = NewTurn] /\ stage[w] # "idle"
    BY <1>10 DEF CommitQuestion, CommitDecision, Commit, Raise, At
  <2>2. \A v \in Workers \ {w} : stage[v] = "idle"
    BY <2>1 DEF QueueInv
  <2>3. \A v \in Workers : turn'[v] = NewTurn
    BY <2>1, <2>2 DEF TypeOK, TurnInv
  <2>4. caseState'.kept \in {keptCase, old[w].kept, NothingSaved}
    <3>1. CASE CommitQuestion(w)
      BY <1>2, <3>1 DEF CommitQuestion
    <3>2. CASE CommitDecision(w)
      BY <1>3, <3>2 DEF CommitDecision
    <3>3. CASE Raise(w)
      BY <1>3, <3>3 DEF Raise, rows
    <3>. QED
      BY <1>10, <3>1, <3>2, <3>3
  <2>. QED
    BY <1>1, <1>4, <1>6, <2>3, <2>4
<1>11. ASSUME NEW w \in Workers, Claim(w) \/ Finish(w) \/ RecordFailure(w) \/ LoseWorker(w)
       PROVE  TurnInv'
  <2>1. UNCHANGED <<turn, caseState, case>> /\ stage[w] # "graph"
    BY <1>11 DEF Claim, Finish, RecordFailure, LoseWorker, rows, world
  <2>2. PICK s \in {"claimed", "idle"} : stage' = [stage EXCEPT ![w] = s]
    BY <1>11 DEF Claim, Finish, RecordFailure, LoseWorker
  <2>3. \A v \in Workers : stage'[v] # "graph" => turn'[v] = NewTurn
    BY <2>1, <2>2 DEF TypeOK, TurnInv
  <2>. QED
    BY <1>7, <2>1, <2>3
<1>12. CASE Crash
  <2>1. turn' = [w \in Workers |-> NewTurn] /\ UNCHANGED caseState
    BY <1>12 DEF Crash, rows
  <2>. QED
    BY <1>3, <1>4, <1>6, <2>1
<1>13. CASE Restart \/ Process \/ AddCustomerMessage \/ OrderChanges
  <2>1. UNCHANGED turn /\ caseState'.kept = keptCase
    BY <1>3, <1>13 DEF Restart, Process, AddCustomerMessage, OrderChanges, rows, TypeOK
  <2>2. \A w \in Workers : stage[w] # "graph"
    BY <1>13 DEF Restart, Process, AddCustomerMessage, Enqueue, MayEnqueue, Unfinished,
       OrderChanges, QueueInv
  <2>3. \A w \in Workers : turn'[w] = NewTurn
    BY <2>1, <2>2 DEF TurnInv
  <2>. QED
    BY <1>4, <1>6, <2>1, <2>3
<1>14. ASSUME NEW i \in DOMAIN approvals,
              ApproveCoupon(i) \/ RejectApprovalTask(i) \/ AssignRefundReview(i) \/ ReviewRefund(i)
       PROVE  TurnInv'
  <2>1. UNCHANGED <<turn, caseState, case, stage>>
    BY <1>14, ReviewFacts DEF Review, world
  <2>. QED
    BY <1>7, <2>1 DEF TurnInv
<1>15. CASE Serve \/ TimePasses \/ UNCHANGED vars
  <2>1. UNCHANGED <<turn, caseState, case, stage>>
    BY <1>15 DEF Serve, TimePasses, vars, rows, world
  <2>. QED
    BY <1>7, <2>1 DEF TurnInv
<1>. QED
  BY <1>8, <1>9, <1>10, <1>11, <1>12, <1>13, <1>14, <1>15 DEF Next, Work, Requests

-----------------------------------------------------------------------------
(* Questions, replies and approvals.                                       *)

\* A lost completion is never made up for.
LEMMA LostStays ==
    ASSUME TypeOK, TurnInv, [Next]_vars, "completion" \in lost PROVE "completion" \in lost'
<1>1. ASSUME NEW w \in Workers, Graph(w) PROVE lost' = lost
  BY <1>1, GraphMoves DEF Moves, Become
<1>2. ASSUME NEW i \in DOMAIN approvals,
             ApproveCoupon(i) \/ RejectApprovalTask(i) \/ AssignRefundReview(i) \/ ReviewRefund(i)
      PROVE  lost' = lost
  BY <1>2, ReviewFacts DEF Review
<1>. QED
  BY <1>1, <1>2 DEF Next, Work, Requests, Claim, StartTurn, CommitQuestion, CommitDecision,
     Commit, Finish, RecordFailure, Raise, LoseWorker, Crash, Restart, Serve, Process,
     AddCustomerMessage, TimePasses, OrderChanges, vars

\* Only a reply unsettles a turn.
LEMMA SettledStays ==
    ASSUME TypeOK, QueueInv, TurnInv, [Next]_vars, Settled
    PROVE  Settled' \/ AddCustomerMessage
<1>1. CASE "completion" \in lost
  BY <1>1, LostStays DEF Settled
<1>2. CASE "completion" \notin lost /\ job.status = "completed"
  <2>1. \A w \in Workers : stage[w] = "idle" \/ stage[w] = "idle"
    BY <1>2 DEF QueueInv
  <2>2. ASSUME UNCHANGED job PROVE Settled'
    BY <1>2, <2>2 DEF Settled
  <2>3. ASSUME NEW w \in Workers, Work(w) \/ Raise(w) \/ LoseWorker(w) PROVE FALSE
    BY <2>1, <2>3, GraphMoves DEF Work, Claim, StartTurn, CommitQuestion, CommitDecision, At,
       Finish, RecordFailure, Raise, LoseWorker
  <2>4. ~ Process
    BY <1>2 DEF Process, Enqueue, MayEnqueue, Unfinished
  <2>5. ASSUME Restart PROVE UNCHANGED job
    BY <1>2, <2>5 DEF Restart, Recoverable, Unfinished
  <2>6. ASSUME NEW i \in DOMAIN approvals,
               ApproveCoupon(i) \/ RejectApprovalTask(i) \/ AssignRefundReview(i) \/ ReviewRefund(i)
        PROVE  UNCHANGED job
    BY <2>6, ReviewFacts DEF Review
  <2>7. ASSUME Crash \/ Serve \/ TimePasses \/ OrderChanges \/ UNCHANGED vars
        PROVE  UNCHANGED job
    BY <2>7 DEF Crash, Serve, TimePasses, OrderChanges, vars, rows
  <2>. QED
    BY <2>2, <2>3, <2>4, <2>5, <2>6, <2>7 DEF Next, Requests
<1>3. ASSUME NEW w \in Workers, stage[w] = "committed", "completion" \notin lost
      PROVE  Settled'
  <2>1. /\ \A v \in Workers : stage[v] # "idle" => v = w
        /\ job.status = "running" /\ process # "down"
    BY <1>3 DEF QueueInv
  <2>2. CASE Finish(w)
    BY <2>2 DEF Finish, Settled, TypeOK
  <2>3. CASE Raise(w)
    BY <1>3, <2>3 DEF Raise, Settled
  <2>4. CASE Crash
    BY <1>3, <2>4 DEF Crash, Settled
  <2>5. ASSUME NEW v \in Workers, Work(v) \/ Raise(v) \/ LoseWorker(v)
        PROVE  Finish(w) \/ Raise(w)
    <3>1. stage[v] # "idle"
      BY <2>5, GraphMoves DEF Work, Claim, StartTurn, CommitQuestion, CommitDecision, At,
         Finish, RecordFailure, Raise, LoseWorker
    <3>2. v = w
      BY <2>1, <3>1
    <3>. QED
      BY <1>3, <2>5, <3>2, GraphMoves DEF Work, Claim, StartTurn, CommitQuestion,
         CommitDecision, At, RecordFailure, LoseWorker
  <2>6. ASSUME UNCHANGED stage PROVE Settled'
    BY <1>3, <2>6 DEF Settled
  <2>7. ~ Restart /\ ~ Process /\ ~ AddCustomerMessage
    BY <2>1 DEF Restart, Process, AddCustomerMessage, Enqueue, MayEnqueue, Unfinished
  <2>8. ASSUME NEW i \in DOMAIN approvals,
               ApproveCoupon(i) \/ RejectApprovalTask(i) \/ AssignRefundReview(i) \/ ReviewRefund(i)
        PROVE  UNCHANGED stage
    BY <2>8, ReviewFacts DEF Review
  <2>9. ASSUME Serve \/ TimePasses \/ OrderChanges \/ UNCHANGED vars PROVE UNCHANGED stage
    BY <2>9 DEF Serve, TimePasses, OrderChanges, vars
  <2>. QED
    BY <2>2, <2>3, <2>4, <2>5, <2>6, <2>7, <2>8, <2>9 DEF Next, Requests
<1>. QED
  BY <1>1, <1>2, <1>3 DEF Settled

\* Where a task is still at work, only an earlier, lost completion can have
\* left a question or an approval.
LEMMA AtWork ==
    ASSUME TypeOK, QueueInv, NEW w \in Workers,
           stage[w] \in {"scheduled", "claimed", "graph", "failing"}
    PROVE  /\ Settled => "completion" \in lost
           /\ Unfinished
BY DEF QueueInv, Settled, Unfinished

\* The approvals of a settled turn.
SettlementInv ==
    /\ ApprovalInv
    /\ ApprovalsFitTicket

LEMMA SettlementInit == Init => SettlementInv
<1>. SUFFICES ASSUME Init PROVE SettlementInv
  OBVIOUS
<1>1. approvals = << >> /\ ticket = "queued"
  BY DEF Init
<1>2. DOMAIN approvals = {}
  BY <1>1
<1>. QED
  BY <1>1, <1>2 DEF SettlementInv, ApprovalInv, OpenApprovals, ApprovalsFitTicket

\* A new ticket status is fine where no approval is open, or where the turn was
\* run again after its commit.
LEMMA NoneOpen ==
    ASSUME UNCHANGED approvals,
           (OpenApprovals = {} /\ ticket' # "pending_approval") \/ "completion" \in lost'
    PROVE  ApprovalsFitTicket'
BY DEF ApprovalsFitTicket, OpenApprovals

\* Reviewing an approval keeps the approvals and the ticket in step.
LEMMA ReviewSettles ==
    ASSUME TypeOK, QueueInv, TurnInv, SettlementInv, [Next]_vars,
           NEW i \in DOMAIN approvals, NEW s, Review(i, s)
    PROVE  SettlementInv'
<1>1. /\ DOMAIN approvals' = DOMAIN approvals
      /\ \A j \in DOMAIN approvals :
            /\ approvals[j] \in Approvals
            /\ approvals'[j].type = approvals[j].type
            /\ approvals'[j].sources = approvals[j].sources
            /\ approvals'[j].status = IF j = i THEN s ELSE approvals[j].status
  BY ReviewRows
<1>2. i \in OpenApprovals /\ s \in {"in_review", "approved", "rejected"}
  BY DEF Review, OpenApprovals
<1>3. OpenApprovals' = IF s = "in_review" THEN OpenApprovals ELSE OpenApprovals \ {i}
  BY <1>1, <1>2 DEF OpenApprovals
<1>4. ApprovalInv'
  <2>1. Settled
    BY <1>2 DEF SettlementInv, ApprovalInv
  <2>2. UNCHANGED <<job, stage, lost>>
    BY DEF Review
  <2>. QED
    BY <2>1, <2>2 DEF Settled, ApprovalInv
<1>5. ApprovalsFitTicket'
  <2>1. SUFFICES ASSUME "completion" \notin lost
                 PROVE  /\ \A j, k \in OpenApprovals' : j = k
                        /\ \A j \in OpenApprovals' :
                              ticket' = IF approvals'[j].type = "refund_review" THEN "escalated"
                                        ELSE "pending_approval"
                        /\ ticket' = "pending_approval" => OpenApprovals' # {}
    BY DEF ApprovalsFitTicket, Review
  <2>2. OpenApprovals = {i}
    BY <1>2, <2>1 DEF SettlementInv, ApprovalsFitTicket
  <2>3. CASE s = "in_review"
    <3>1. approvals'[i].type = "refund_review" /\ ticket' = "escalated"
      BY <1>1, <2>3 DEF Review
    <3>. QED
      BY <1>3, <2>2, <2>3, <3>1
  <2>4. CASE s # "in_review"
    BY <1>3, <2>2, <2>4 DEF Review
  <2>. QED
    BY <2>3, <2>4
<1>. QED
  BY <1>4, <1>5 DEF SettlementInv

\* The effects of a turn add at most one approval, to none that was open.
LEMMA DecisionSettles ==
    ASSUME TypeOK, QueueInv, TurnInv, SettlementInv, [Next]_vars,
           NEW w \in Workers, CommitDecision(w)
    PROVE  SettlementInv'
<1>1. stage[w] = "graph" /\ stage' = [stage EXCEPT ![w] = "committed"] /\ lost' = lost
  BY DEF CommitDecision, Commit, At
<1>2. ApprovalInv'
  BY <1>1 DEF ApprovalInv, Settled, TypeOK
<1>3. OpenApprovals # {} => "completion" \in lost'
  BY <1>1, AtWork DEF SettlementInv, ApprovalInv
<1>4. CASE approvals' = approvals /\ ticket' \in {"resolved", "escalated"}
  <2>1. ApprovalsFitTicket'
    BY <1>3, <1>4, NoneOpen
  <2>. QED
    BY <1>2, <2>1 DEF SettlementInv
<1>5. ASSUME NEW a \in Approvals, approvals' = Append(approvals, a), a.status = "pending",
             ticket' = IF a.type = "refund_review" THEN "escalated" ELSE "pending_approval"
      PROVE  SettlementInv'
  <2>1. PICK n : n = Len(approvals) + 1
    OBVIOUS
  <2>2. approvals \in Seq(Approvals) /\ Len(approvals) \in Nat
    BY LenProperties DEF TypeOK
  <2>3. /\ DOMAIN approvals = 1 .. Len(approvals) /\ DOMAIN approvals' = DOMAIN approvals \cup {n}
        /\ approvals'[n] = a /\ n \notin DOMAIN approvals
        /\ \A j \in DOMAIN approvals : approvals'[j] = approvals[j]
    BY <1>5, <2>1, <2>2
  <2>4. OpenApprovals' = OpenApprovals \cup {n}
    BY <1>5, <2>3 DEF OpenApprovals
  <2>5. ApprovalsFitTicket'
    <3>1. CASE "completion" \in lost'
      BY <3>1 DEF ApprovalsFitTicket
    <3>2. CASE "completion" \notin lost'
      <4>1. OpenApprovals' = {n}
        BY <1>3, <2>4, <3>2
      <4>. QED
        BY <1>5, <2>3, <4>1 DEF ApprovalsFitTicket
    <3>. QED
      BY <3>1, <3>2
  <2>. QED
    BY <1>2, <2>5 DEF SettlementInv
<1>. QED
  BY <1>4, <1>5, DecisionRows

LEMMA SettlementStep ==
    TypeOK /\ QueueInv /\ TurnInv /\ SettlementInv /\ [Next]_vars => SettlementInv'
<1>. SUFFICES ASSUME TypeOK, QueueInv, TurnInv, SettlementInv, [Next]_vars PROVE SettlementInv'
  OBVIOUS
<1>0. AddCustomerMessage => messages' # messages
  <2>1. messages \in Nat
    BY DEF TypeOK
  <2>2. AddCustomerMessage => messages' = messages + 1
    BY DEF AddCustomerMessage
  <2>. QED
    BY <2>1, <2>2
<1>1. ASSUME UNCHANGED approvals, ~ AddCustomerMessage PROVE ApprovalInv'
  <2>1. OpenApprovals' = OpenApprovals
    BY <1>1 DEF OpenApprovals
  <2>. QED
    BY <1>1, <2>1, SettledStays DEF ApprovalInv, SettlementInv
<1>2. ASSUME UNCHANGED <<approvals, ticket>>, ~ AddCustomerMessage PROVE SettlementInv'
  <2>1. OpenApprovals' = OpenApprovals
    BY <1>2 DEF OpenApprovals
  <2>2. ApprovalsFitTicket'
    BY <1>2, <2>1, LostStays DEF SettlementInv, ApprovalsFitTicket
  <2>. QED
    BY <1>1, <1>2, <2>2 DEF SettlementInv
<1>3. ASSUME UNCHANGED approvals, ~ AddCustomerMessage, ticket' # "pending_approval",
             Settled => "completion" \in lost
      PROVE  SettlementInv'
  <2>1. OpenApprovals # {} => "completion" \in lost'
    BY <1>3, LostStays DEF SettlementInv, ApprovalInv
  <2>2. ApprovalsFitTicket'
    BY <1>3, <2>1, NoneOpen
  <2>. QED
    BY <1>1, <1>3, <2>2 DEF SettlementInv
<1>4. ASSUME NEW w \in Workers, stage[w] # "idle" PROVE ~ AddCustomerMessage
  BY <1>4 DEF AddCustomerMessage, Enqueue, MayEnqueue, QueueInv, Unfinished
<1>5. ASSUME NEW w \in Workers, Claim(w) \/ RecordFailure(w) \/ CommitQuestion(w)
      PROVE  SettlementInv'
  <2>1. /\ stage[w] \in {"scheduled", "failing", "graph"} /\ UNCHANGED approvals
        /\ ticket' = ticket \/ ticket' \in {"processing", "failed", "waiting_customer"}
    BY <1>5 DEF Claim, RecordFailure, CommitQuestion, At
  <2>2. Settled => "completion" \in lost
    BY <2>1, AtWork
  <2>. QED
    BY <1>2, <1>3, <1>4, <2>1, <2>2
<1>6. ASSUME NEW w \in Workers,
             StartTurn(w) \/ Graph(w) \/ Finish(w) \/ Raise(w) \/ LoseWorker(w)
      PROVE  SettlementInv'
  <2>1. stage[w] # "idle"
    BY <1>6, GraphMoves DEF StartTurn, Finish, Raise, LoseWorker
  <2>2. UNCHANGED <<approvals, ticket>>
    BY <1>6, GraphMoves DEF Moves, Become, StartTurn, Finish, Raise, LoseWorker, rows
  <2>. QED
    BY <1>2, <1>4, <2>1, <2>2
<1>7. CASE Crash \/ Restart \/ Serve \/ TimePasses \/ OrderChanges \/ UNCHANGED vars
  <2>1. UNCHANGED <<approvals, ticket>>
    BY <1>7 DEF Crash, Restart, Serve, TimePasses, OrderChanges, vars, rows
  <2>2. messages' = messages
    BY <1>7 DEF Crash, Restart, Serve, TimePasses, OrderChanges, vars, rows
  <2>3. ~ AddCustomerMessage
    BY <2>2, <1>0
  <2>. QED
    BY <1>2, <2>1, <2>3
<1>8. CASE Process
  <2>1. UNCHANGED approvals /\ ticket' = "queued" /\ messages' = messages
    BY <1>8 DEF Process, Enqueue
  <2>2. ~ AddCustomerMessage
    BY <2>1, <1>0
  <2>3. Settled => "completion" \in lost
    <3>1. job.status \notin {"pending", "running", "completed"}
      BY <1>8 DEF Process, Enqueue, MayEnqueue, Unfinished
    <3>2. \A w \in Workers : stage[w] # "committed"
      BY <3>1 DEF QueueInv
    <3>. QED
      BY <3>1, <3>2 DEF Settled
  <2>. QED
    BY <1>3, <2>1, <2>2, <2>3
<1>9. CASE AddCustomerMessage
  <2>1. UNCHANGED <<approvals, lost>> /\ ticket = "waiting_customer" /\ ticket' = "queued"
    BY <1>9 DEF AddCustomerMessage, Enqueue
  <2>2. OpenApprovals' = OpenApprovals
    BY <2>1 DEF OpenApprovals
  <2>3. OpenApprovals = {} \/ "completion" \in lost'
    <3>1. ASSUME NEW i \in OpenApprovals, "completion" \notin lost
          PROVE  ticket \in {"escalated", "pending_approval"}
      BY <3>1 DEF SettlementInv, ApprovalsFitTicket
    <3>. QED
      BY <2>1, <3>1
  <2>4. ApprovalsFitTicket'
    BY <2>1, <2>3, NoneOpen
  <2>5. ApprovalInv'
    BY <2>2, <2>3 DEF ApprovalInv, Settled
  <2>. QED
    BY <2>4, <2>5 DEF SettlementInv
<1>10. ASSUME NEW i \in DOMAIN approvals,
              ApproveCoupon(i) \/ RejectApprovalTask(i) \/ AssignRefundReview(i) \/ ReviewRefund(i)
       PROVE  SettlementInv'
  BY <1>10, ReviewFacts, ReviewSettles
<1>. QED
  BY <1>5, <1>6, <1>7, <1>8, <1>9, <1>10, DecisionSettles DEF Next, Work, Requests

LEMMA PauseInit == Init => PauseInv
BY DEF Init, PauseInv, ReplyIsHandled, ConversationAlternates

\* A step that leaves the conversation alone keeps it in step, and an open
\* question stays behind a settled turn.
LEMMA PauseStays ==
    ASSUME TypeOK, QueueInv, TurnInv, PauseInv, [Next]_vars, ~ AddCustomerMessage,
           UNCHANGED <<messages, questions, caseState>>
    PROVE  ConversationAlternates' /\ (caseState'.status = "waiting_customer" => Settled')
<1>1. ConversationAlternates'
  BY LostStays DEF PauseInv, ConversationAlternates
<1>. QED
  BY <1>1, SettledStays DEF PauseInv

LEMMA PauseStep ==
    TypeOK /\ QueueInv /\ TurnInv /\ PauseInv /\ [Next]_vars => PauseInv'
<1>. SUFFICES ASSUME TypeOK, QueueInv, TurnInv, PauseInv, [Next]_vars PROVE PauseInv'
  OBVIOUS
<1>1. AddCustomerMessage => messages' # messages
  <2>1. messages \in Nat
    BY DEF TypeOK
  <2>2. AddCustomerMessage => messages' = messages + 1
    BY DEF AddCustomerMessage
  <2>. QED
    BY <2>1, <2>2
<1>2. ASSUME UNCHANGED <<messages, questions, caseState>>,
             \A w \in Workers : stage'[w] = "committed" /\ caseState'.status = "active"
                                  => ticket' \in Decided,
             caseState'.status = "active" => job'.status # "completed" \/ ticket' \in Decided
      PROVE  PauseInv'
  BY <1>1, <1>2, PauseStays DEF PauseInv, ReplyIsHandled
<1>3. ASSUME UNCHANGED <<messages, questions, caseState, ticket>>,
             \A w \in Workers : stage'[w] = "committed" => stage[w] = "committed",
             job'.status = "completed" => job.status = "completed"
      PROVE  PauseInv'
  BY <1>2, <1>3 DEF PauseInv, ReplyIsHandled
<1>4. ASSUME NEW w \in Workers, Finish(w) PROVE PauseInv'
  <2>1. /\ UNCHANGED <<messages, questions, caseState, ticket>> /\ stage[w] = "committed"
        /\ stage' = [stage EXCEPT ![w] = "idle"]
    BY <1>4 DEF Finish
  <2>2. /\ \A v \in Workers : stage'[v] = "committed" => stage[v] = "committed"
        /\ caseState.status = "active" => ticket \in Decided
    BY <2>1 DEF PauseInv, TypeOK
  <2>3. \A v \in Workers : stage'[v] = "committed" /\ caseState'.status = "active"
                               => ticket' \in Decided
    BY <2>1, <2>2
  <2>. QED
    BY <1>2, <2>1, <2>2, <2>3
<1>5. ASSUME NEW w \in Workers, StartTurn(w) PROVE PauseInv'
  <2>1. /\ UNCHANGED <<messages, questions, caseState, ticket, job>>
        /\ stage' = [stage EXCEPT ![w] = IF ticket \in Decided THEN "committed" ELSE "graph"]
    BY <1>5 DEF StartTurn, rows
  <2>2. \A v \in Workers : stage'[v] = "committed" /\ caseState'.status = "active"
                               => ticket' \in Decided
    BY <2>1 DEF PauseInv, TypeOK
  <2>3. caseState'.status = "active" => job'.status # "completed" \/ ticket' \in Decided
    BY <2>1 DEF PauseInv, ReplyIsHandled
  <2>. QED
    BY <1>2, <2>1, <2>2, <2>3
<1>6. ASSUME NEW w \in Workers, CommitQuestion(w) PROVE PauseInv'
  <2>1. /\ stage[w] = "graph" /\ stage' = [stage EXCEPT ![w] = "committed"]
        /\ UNCHANGED <<messages, lost>> /\ questions' = questions + 1
        /\ caseState' = [status |-> "waiting_customer", kept |-> turn[w].kept]
    BY <1>6 DEF CommitQuestion, Commit, At
  <2>2. caseState'.status = "waiting_customer"
    BY <2>1
  <2>3. Settled'
    BY <2>1 DEF Settled, TypeOK
  <2>4. caseState.status = "waiting_customer" => "completion" \in lost
    BY <2>1, AtWork DEF PauseInv
  <2>5. ConversationAlternates'
    <3>1. CASE "completion" \in lost
      BY <2>1, <3>1 DEF ConversationAlternates
    <3>2. CASE "completion" \notin lost
      <4>1. questions = messages - 1
        BY <2>4, <3>2 DEF PauseInv, ConversationAlternates, TypeOK
      <4>2. messages \in Nat /\ questions \in Nat
        BY DEF TypeOK
      <4>3. questions' = messages' - 1 + 1
        BY <2>1, <4>1, <4>2
      <4>. QED
        BY <2>2, <4>3 DEF ConversationAlternates
    <3>. QED
      BY <3>1, <3>2
  <2>. QED
    BY <2>2, <2>3, <2>5 DEF PauseInv, ReplyIsHandled
<1>7. ASSUME NEW w \in Workers, CommitDecision(w) PROVE PauseInv'
  <2>1. /\ stage[w] = "graph" /\ stage' = [stage EXCEPT ![w] = "committed"]
        /\ UNCHANGED <<messages, questions, lost, job>>
    BY <1>7 DEF CommitDecision, Commit, At
  <2>2. /\ ticket' \in Decided
        /\ caseState' = caseState \/ caseState'.status = "completed"
    BY <1>7, DecisionRows DEF Decided
  <2>3. caseState.status = "waiting_customer" => "completion" \in lost
    BY <2>1, AtWork DEF PauseInv
  <2>4. ConversationAlternates'
    BY <2>1, <2>2, <2>3 DEF PauseInv, ConversationAlternates
  <2>5. Settled'
    BY <2>1 DEF Settled, TypeOK
  <2>. QED
    BY <2>2, <2>4, <2>5 DEF PauseInv, ReplyIsHandled
<1>8. ASSUME NEW w \in Workers, Claim(w) \/ RecordFailure(w) PROVE PauseInv'
  <2>1. /\ stage[w] \in {"scheduled", "failing"} /\ UNCHANGED <<messages, questions, caseState>>
        /\ \E s \in {"claimed", "idle"} : stage' = [stage EXCEPT ![w] = s]
    BY <1>8 DEF Claim, RecordFailure
  <2>2. job'.status # "completed"
    <3>1. CASE Claim(w)
      <4>1. job.status = "pending"
        BY <3>1 DEF Claim, QueueInv
      <4>. QED
        BY <3>1, <4>1 DEF Claim
    <3>2. CASE RecordFailure(w)
      BY <3>2 DEF RecordFailure, TypeOK
    <3>. QED
      BY <1>8, <3>1, <3>2
  <2>3. \A v \in Workers : stage'[v] # "committed"
    BY <2>1 DEF QueueInv, TypeOK
  <2>. QED
    BY <1>2, <2>1, <2>2, <2>3
<1>9. ASSUME NEW w \in Workers, Graph(w) PROVE PauseInv'
  <2>1. UNCHANGED <<messages, questions, caseState, ticket, stage, job>>
    BY <1>9, GraphMoves DEF Moves, Become, rows
  <2>. QED
    BY <1>3, <2>1
<1>10. ASSUME NEW w \in Workers, Raise(w) \/ LoseWorker(w) PROVE PauseInv'
  <2>1. /\ UNCHANGED <<messages, questions, caseState, ticket, job>>
        /\ \E s \in {"failing", "idle"} : stage' = [stage EXCEPT ![w] = s]
    BY <1>10 DEF Raise, LoseWorker, rows
  <2>2. \A v \in Workers : stage'[v] = "committed" => stage[v] = "committed"
    BY <2>1 DEF TypeOK
  <2>. QED
    BY <1>3, <2>1, <2>2
<1>11. CASE Crash
  BY <1>3, <1>11 DEF Crash, rows
<1>12. CASE Restart
  <2>1. UNCHANGED <<messages, questions, caseState, ticket>>
    BY <1>12 DEF Restart
  <2>2. \A w \in Workers : stage'[w] # "committed"
    BY <1>12 DEF Restart, QueueInv, TypeOK
  <2>3. job'.status = "completed" => job.status = "completed"
    BY <1>12 DEF Restart, TypeOK
  <2>. QED
    BY <1>3, <2>1, <2>2, <2>3
<1>13. CASE Serve \/ TimePasses \/ OrderChanges \/ UNCHANGED vars
  <2>1. UNCHANGED <<messages, questions, caseState, ticket, stage, job>>
    BY <1>13 DEF Serve, TimePasses, OrderChanges, vars, rows
  <2>. QED
    BY <1>3, <2>1
<1>14. CASE Process
  <2>1. UNCHANGED <<messages, questions, caseState>> /\ job'.status = "pending"
    BY <1>14 DEF Process, Enqueue
  <2>2. \A w \in Workers : stage'[w] # "committed"
    BY <1>14 DEF Process, Enqueue, MayEnqueue, Unfinished, QueueInv, TypeOK
  <2>. QED
    BY <1>2, <2>1, <2>2
<1>15. CASE AddCustomerMessage
  <2>1. /\ messages' = messages + 1 /\ UNCHANGED <<questions, lost>>
        /\ caseState.status = "waiting_customer" /\ caseState'.status = "active"
        /\ job'.status = "pending" /\ ~ Unfinished
    BY <1>15 DEF AddCustomerMessage, Enqueue, MayEnqueue, TypeOK
  <2>2. \A w \in Workers : stage'[w] # "committed"
    BY <1>15 DEF AddCustomerMessage, Enqueue, MayEnqueue, Unfinished, QueueInv, TypeOK
  <2>3. ConversationAlternates'
    <3>1. messages \in Nat /\ questions \in Nat
      BY DEF TypeOK
    <3>2. "completion" \notin lost => questions = messages - 1 + 1
      BY <2>1 DEF PauseInv, ConversationAlternates
    <3>. QED
      BY <2>1, <3>1, <3>2 DEF ConversationAlternates
  <2>. QED
    BY <2>1, <2>2, <2>3 DEF PauseInv, ReplyIsHandled
<1>16. ASSUME NEW i \in DOMAIN approvals,
              ApproveCoupon(i) \/ RejectApprovalTask(i) \/ AssignRefundReview(i) \/ ReviewRefund(i)
       PROVE  PauseInv'
  <2>1. UNCHANGED <<messages, questions, caseState>> /\ ticket' \in Decided
    BY <1>16, ReviewFacts DEF Review, Decided
  <2>. QED
    BY <1>2, <2>1
<1>. QED
  BY <1>4, <1>5, <1>6, <1>7, <1>8, <1>9, <1>10, <1>11, <1>12, <1>13, <1>14, <1>15, <1>16
     DEF Next, Work, Requests

-----------------------------------------------------------------------------
(* The theorems.                                                           *)

\* The inductive invariant.
TicketInv == TypeOK /\ QueueInv /\ TurnInv /\ PauseInv /\ SettlementInv

\* The queue, the turns, the conversation and the approvals stay in step with
\* each other, whatever fails and whenever the process is restarted.
THEOREM TicketInvariant == Spec => []TicketInv
<1>1. Init => TicketInv
  BY TypeInit, QueueInit, TurnInit, PauseInit, SettlementInit DEF TicketInv
<1>2. TicketInv /\ [Next]_vars => TicketInv'
  BY TypeStep, QueueStep, TurnStep, PauseStep, SettlementStep DEF TicketInv
<1>. QED
  BY <1>1, <1>2, PTL DEF Spec

\* The rows and the memory of the process stay well formed.
THEOREM TypeCorrect == Spec => []TypeOK
<1>1. TicketInv => TypeOK
  BY DEF TicketInv
<1>. QED
  BY <1>1, TicketInvariant, PTL

\* No two tasks ever work on the ticket at the same time.
THEOREM WorkExclusive == Spec => []WorkIsExclusive
<1>1. TicketInv => WorkIsExclusive
  BY DEF TicketInv, QueueInv, WorkIsExclusive, Busy
<1>. QED
  BY <1>1, TicketInvariant, PTL

\* A running process has a task for every unfinished job, or lost it without a
\* record.
THEOREM JobsHaveTasks == Spec => []UnfinishedJobHasTask
<1>1. TicketInv => UnfinishedJobHasTask
  BY DEF TicketInv, QueueInv, UnfinishedJobHasTask, Busy
<1>. QED
  BY <1>1, TicketInvariant, PTL

\* A reply is never stranded behind a completed job, unless the ticket was
\* decided.
THEOREM RepliesHandled == Spec => []ReplyIsHandled
<1>1. TicketInv => ReplyIsHandled
  BY DEF TicketInv, PauseInv
<1>. QED
  BY <1>1, TicketInvariant, PTL

\* Questions and replies alternate while no completion was lost.
THEOREM ConversationsAlternate == Spec => []ConversationAlternates
<1>1. TicketInv => ConversationAlternates
  BY DEF TicketInv, PauseInv
<1>. QED
  BY <1>1, TicketInvariant, PTL

\* At most one approval is open and the ticket shows its kind, while no
\* completion was lost.
THEOREM ApprovalsFit == Spec => []ApprovalsFitTicket
<1>1. TicketInv => ApprovalsFitTicket
  BY DEF TicketInv, SettlementInv
<1>. QED
  BY <1>1, TicketInvariant, PTL

\* A coupon proposed by a step is justified, and so are the facts that a case
\* pauses with.
CouponStep ==
    LET n == Len(approvals') IN
    /\ n > Len(approvals) /\ approvals'[n].type = "coupon_compensation" =>
          /\ case.rag => approvals'[n].sources
          /\ Justified \/ (caseState.status = "active" /\ FactsJustify(caseState.kept.facts))
    /\ caseState'.kept.facts # caseState.kept.facts /\ FactsJustify(caseState'.kept.facts) =>
          Justified

LEMMA CouponSteps == TypeOK /\ TurnInv /\ [Next]_vars => CouponStep
<1>. SUFFICES ASSUME TypeOK, TurnInv, [Next]_vars PROVE CouponStep
  OBVIOUS
<1>1. approvals \in Seq(Approvals) /\ Len(approvals) \in Nat
  BY LenProperties DEF TypeOK
<1>2. ASSUME Len(approvals') = Len(approvals), caseState'.kept.facts = caseState.kept.facts
      PROVE  CouponStep
  BY <1>1, <1>2 DEF CouponStep
<1>3. ASSUME NEW w \in Workers, CommitQuestion(w) PROVE CouponStep
  <2>1. approvals' = approvals /\ caseState'.kept = turn[w].kept
    BY <1>3 DEF CommitQuestion
  <2>2. Supported(turn[w].kept.facts)
    BY DEF TurnInv, Sound
  <2>. QED
    BY <1>1, <2>1, <2>2 DEF CouponStep, Supported
<1>4. ASSUME NEW w \in Workers, CommitDecision(w) PROVE CouponStep
  <2>1. caseState'.kept.facts = caseState.kept.facts \/ ~ FactsJustify(caseState'.kept.facts)
    BY <1>4, DecisionRows DEF NothingSaved, NoFacts, FactsJustify
  <2>2. CASE approvals' = approvals
    BY <1>1, <2>1, <2>2 DEF CouponStep
  <2>3. ASSUME NEW a \in Approvals, approvals' = Append(approvals, a),
               a.type = "coupon_compensation" => Grounded(a.sources)
        PROVE  CouponStep
    <3>1. Len(approvals') = Len(approvals) + 1 /\ approvals'[Len(approvals')] = a
      BY <1>1, <2>3, AppendProperties
    <3>. QED
      BY <2>1, <2>3, <3>1 DEF CouponStep, Grounded
  <2>. QED
    BY <1>4, <2>2, <2>3, DecisionRows
<1>5. ASSUME NEW w \in Workers, Graph(w) PROVE CouponStep
  BY <1>2, <1>5, GraphMoves DEF Moves, Become, rows
<1>6. ASSUME NEW w \in Workers, Claim(w) \/ StartTurn(w) \/ Finish(w) \/ RecordFailure(w)
                                \/ Raise(w) \/ LoseWorker(w)
      PROVE  CouponStep
  BY <1>2, <1>6 DEF Claim, StartTurn, Finish, RecordFailure, Raise, LoseWorker, rows
<1>7. CASE Crash \/ Restart \/ Serve \/ TimePasses \/ OrderChanges \/ UNCHANGED vars
  BY <1>2, <1>7 DEF Crash, Restart, Serve, TimePasses, OrderChanges, vars, rows
<1>8. CASE Process \/ AddCustomerMessage
  <2>1. approvals' = approvals /\ caseState'.kept = caseState.kept
    BY <1>8 DEF Process, AddCustomerMessage, TypeOK
  <2>. QED
    BY <1>2, <2>1
<1>9. ASSUME NEW i \in DOMAIN approvals,
             ApproveCoupon(i) \/ RejectApprovalTask(i) \/ AssignRefundReview(i) \/ ReviewRefund(i)
      PROVE  CouponStep
  <2>1. PICK s : Review(i, s)
    BY <1>9, ReviewFacts
  <2>2. Len(approvals') = Len(approvals) /\ caseState' = caseState
    BY <2>1, ReviewRows DEF Review
  <2>. QED
    BY <1>2, <2>2
<1>. QED
  BY <1>3, <1>4, <1>5, <1>6, <1>7, <1>8, <1>9 DEF Next, Work, Requests

\* Every coupon is justified by the order when it is proposed, or by the facts of
\* a resumed case, which were true when the case paused with them.
THEOREM CouponsGrounded == Spec => CouponIsGrounded
<1>1. TicketInv /\ [Next]_vars => [CouponStep]_vars
  BY CouponSteps DEF TicketInv
<1>. QED
  BY <1>1, TicketInvariant, PTL DEF Spec, CouponIsGrounded, CouponStep

\* An investigation keeps its budgets across pauses, retries and restarts.
THEOREM BudgetsKept == Spec => []BudgetsSpanTurns
<1>1. TicketInv => BudgetsSpanTurns
  BY DEF TicketInv, TurnInv, Sound, KeptInv, BudgetsSpanTurns
<1>. QED
  BY <1>1, TicketInvariant, PTL

-----------------------------------------------------------------------------
(* The attempts of a job.                                                  *)

\* A startup has the worker of the job it recovers, so the process never serves
\* requests before that job has ended; what is queued after that is below the
\* limit.
AttemptInv ==
    /\ process = "recovering" => "worker" \notin lost
    /\ process = "up" /\ job.status = "pending" => job.attempts < MaxAttempts

\* Queueing a job again never adds an attempt, and leaves one to use.
LEMMA EnqueueAttempts ==
    ASSUME TypeOK, NEW resume \in BOOLEAN, Enqueue(resume)
    PROVE  job'.attempts < MaxAttempts /\ job'.attempts <= job.attempts
<1>1. /\ job' = [status |-> "pending", attempts |-> IF resume THEN 0 ELSE job.attempts]
      /\ resume \/ job.attempts < MaxAttempts
  BY DEF Enqueue, MayEnqueue
<1>2. job.attempts \in Nat /\ MaxAttempts > 0
  BY LimitsAssumption DEF TypeOK
<1>. QED
  BY <1>1, <1>2

\* Every step keeps the invariant, and only the claim of a startup's worker goes
\* beyond the limit.
LEMMA AttemptStep ==
    ASSUME TypeOK, QueueInv, TurnInv, AttemptInv, [Next]_vars
    PROVE  /\ AttemptInv'
           /\ job'.attempts > MaxAttempts => job'.attempts = job.attempts \/ process = "recovering"
<1>1. job \in [status : JobStatuses, attempts : Nat] /\ MaxAttempts \in Nat
  BY LimitsAssumption DEF TypeOK
<1>2. ASSUME UNCHANGED <<job, process>>, lost' = lost \/ process # "recovering"
      PROVE  /\ AttemptInv'
             /\ job'.attempts = job.attempts
  BY <1>2 DEF AttemptInv
<1>3. ASSUME NEW w \in Workers, Claim(w)
      PROVE  /\ AttemptInv'
             /\ job'.attempts > MaxAttempts => job'.attempts = job.attempts \/ process = "recovering"
  <2>1. process # "down" /\ job.status = "pending"
    BY <1>3 DEF Claim, QueueInv
  <2>2. /\ job' = [status |-> "running", attempts |-> job.attempts + 1]
        /\ UNCHANGED <<process, lost>>
    BY <1>3, <2>1 DEF Claim
  <2>3. job'.status = "running" /\ job'.attempts = job.attempts + 1
    BY <2>2
  <2>4. process = "recovering" \/ job.attempts < MaxAttempts
    BY <2>1 DEF AttemptInv, TypeOK
  <2>. QED
    BY <1>1, <2>2, <2>3, <2>4 DEF AttemptInv
<1>4. ASSUME NEW w \in Workers, Finish(w) \/ RecordFailure(w)
      PROVE  AttemptInv' /\ job'.attempts = job.attempts
  <2>1. PICK s \in {"completed", "failed"} : job' = [job EXCEPT !.status = s]
    BY <1>4 DEF Finish, RecordFailure
  <2>2. job'.status = s /\ job'.attempts = job.attempts
    BY <1>1, <2>1
  <2>3. UNCHANGED <<process, lost>>
    BY <1>4 DEF Finish, RecordFailure
  <2>. QED
    BY <2>2, <2>3 DEF AttemptInv
<1>5. ASSUME NEW w \in Workers, Work(w)
      PROVE  /\ AttemptInv'
             /\ job'.attempts > MaxAttempts => job'.attempts = job.attempts \/ process = "recovering"
  <2>1. CASE Graph(w)
    BY <1>2, <2>1, GraphMoves DEF Moves, Become, rows
  <2>2. CASE StartTurn(w) \/ CommitQuestion(w) \/ CommitDecision(w)
    BY <1>2, <2>2 DEF StartTurn, CommitQuestion, CommitDecision, Commit, rows
  <2>. QED
    BY <1>3, <1>4, <1>5, <2>1, <2>2 DEF Work
<1>6. ASSUME NEW w \in Workers, Raise(w)
      PROVE  AttemptInv' /\ job'.attempts = job.attempts
  <2>1. /\ UNCHANGED <<job, process>>
        /\ "worker" \in lost' => "worker" \in lost
    BY <1>6 DEF Raise, rows
  <2>. QED
    BY <2>1 DEF AttemptInv
<1>7. ASSUME NEW w \in Workers, LoseWorker(w)
      PROVE  AttemptInv' /\ job'.attempts = job.attempts
  <2>1. /\ job' = job
        /\ process' = IF process = "recovering" THEN "down" ELSE process
    BY <1>7 DEF LoseWorker, rows
  <2>. QED
    BY <2>1 DEF AttemptInv
<1>8. CASE Crash
  BY <1>8 DEF Crash, rows, AttemptInv
<1>9. CASE Restart
  <2>1. CASE Recoverable
    <3>1. job' = [job EXCEPT !.status = "pending"] /\ process' = "recovering"
          /\ lost' = lost \ {"worker"}
      BY <1>9, <2>1 DEF Restart
    <3>2. job'.attempts = job.attempts
      BY <1>1, <3>1
    <3>. QED
      BY <3>1, <3>2 DEF AttemptInv
  <2>2. CASE ~ Recoverable
    BY <1>9, <2>2 DEF Restart, Recoverable, Unfinished, AttemptInv
  <2>. QED
    BY <2>1, <2>2
<1>10. CASE Serve
  <2>1. /\ process = "recovering" /\ process' = "up" /\ UNCHANGED <<job, lost>>
        /\ \A w \in Workers : stage[w] = "idle"
    BY <1>10 DEF Serve, rows
  <2>2. ~ Unfinished
    BY <2>1 DEF QueueInv, AttemptInv
  <2>. QED
    BY <2>1, <2>2 DEF AttemptInv, Unfinished
<1>11. CASE Process \/ AddCustomerMessage
  <2>1. PICK resume \in BOOLEAN : Enqueue(resume)
    BY <1>11 DEF Process, AddCustomerMessage
  <2>2. process = "up" /\ process' = process
    BY <1>11 DEF Process, AddCustomerMessage
  <2>3. job'.attempts < MaxAttempts /\ job'.attempts <= job.attempts
    BY <2>1, EnqueueAttempts
  <2>4. job'.attempts \in Nat
    BY <1>1, <2>1 DEF Enqueue
  <2>. QED
    BY <1>1, <2>2, <2>3, <2>4 DEF AttemptInv
<1>12. ASSUME NEW i \in DOMAIN approvals,
              ApproveCoupon(i) \/ RejectApprovalTask(i) \/ AssignRefundReview(i) \/ ReviewRefund(i)
       PROVE  AttemptInv' /\ job'.attempts = job.attempts
  BY <1>2, <1>12, ReviewFacts DEF Review
<1>13. CASE TimePasses \/ OrderChanges
  BY <1>2, <1>13 DEF TimePasses, OrderChanges, rows
<1>14. CASE UNCHANGED vars
  BY <1>2, <1>14 DEF vars, rows
<1>. QED
  BY <1>5, <1>6, <1>7, <1>8, <1>9, <1>10, <1>11, <1>12, <1>13, <1>14 DEF Next, Requests

\* Retries are limited whatever fails; only the jobs a startup finds are run
\* again beyond the limit.
THEOREM AttemptsLimited == Spec => OnlyRecoveryExceedsLimit
<1>1. Init => AttemptInv
  BY LimitsAssumption DEF Init, AttemptInv
<1>2. TicketInv /\ AttemptInv /\ [Next]_vars => AttemptInv'
  BY AttemptStep DEF TicketInv
<1>3. TicketInv /\ AttemptInv /\ [Next]_vars =>
        [job'.attempts # job.attempts /\ job'.attempts > MaxAttempts
           => process = "recovering"]_vars
  BY AttemptStep DEF TicketInv
<1>. QED
  BY <1>1, <1>2, <1>3, TicketInvariant, PTL DEF Spec, OnlyRecoveryExceedsLimit
=============================================================================
