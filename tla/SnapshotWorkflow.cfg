\* The documented budgets and LangGraph's limit of the invocation.
SPECIFICATION Spec
CONSTANTS
    Answers <- AllAnswers
    MaxSteps = 10
    MaxSearches = 3
    RecursionLimit = 64
    Undecided = Undecided
    Cases <- AllCases
CHECK_DEADLOCK FALSE
INVARIANTS
    CouponIsGrounded
    NoEarlyDecision
    BudgetsHold
    PlanIsFollowed
    RulesReachTheGoal
PROPERTY EveryCaseIsDecided
