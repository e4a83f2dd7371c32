\* Pauses, retries, crashes and approvals.  Nine steps let a refund be ready
\* after the first reply and use its budget up with the second.
SPECIFICATION Spec
CONSTANTS
    Answers = {"ask_customer"}
    MaxSteps = 9
    MaxSearches = 2
    Workers = {w1, w2}
    MaxAttempts = 2
    MaxMessages = 3
    MaxFaults <- Faults
    Cases <- Tickets
CHECK_DEADLOCK FALSE
INVARIANTS
    WorkIsExclusive
    ReplyIsHandled
    UnfinishedJobHasTask
    ConversationAlternates
    ApprovalsFitTicket
    BudgetsSpanTurns
PROPERTIES
    OnlyRecoveryExceedsLimit
    CouponIsGrounded
    JobEnds
