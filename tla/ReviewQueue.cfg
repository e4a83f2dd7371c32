\* One ticket whose only attempt fails.
SPECIFICATION Spec
CONSTANTS
    Tickets = {t1}
    NoTicket = NoTicket
    Tasks = {k1}
    Approvals = {a1}
    Requests = {r1}
    Answers = {"ESCALATE_REFUND_REVIEW"}
    MaxAttempts = 1
    PoolCapacity = 1
    BatchSize = 1
    NoTxn = NoTxn
INVARIANTS
    HumanReviewIsInQueue
CHECK_DEADLOCK FALSE
