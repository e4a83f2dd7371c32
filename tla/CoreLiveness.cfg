\* One ticket, two rounds, two attempts each; no symmetry, since liveness is checked.
SPECIFICATION FairSpec
CONSTANTS
    Tickets = {t1}
    NoTicket = NoTicket
    Tasks = {k1, k2}
    Approvals = {a1, a2}
    Requests = {r1}
    Answers = {"REQUEST_COUPON_APPROVAL", "ESCALATE_REFUND_REVIEW"}
    MaxAttempts = 2
    PoolCapacity = 1
    BatchSize = 1
    NoTxn = NoTxn
PROPERTIES
    QueuedTicketIsAnswered
    EveryTaskEnds
    ImplementsLifecycle
CHECK_DEADLOCK FALSE
