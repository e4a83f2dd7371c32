\* Two tickets, two tasks, overtaken attempts, a full pool, recovery in batches.
SPECIFICATION Spec
CONSTANTS
    Tickets = {t1, t2}
    NoTicket = NoTicket
    Tasks = {k1, k2}
    Approvals = {a1, a2}
    Requests = {r1}
    Answers = {"ESCALATE_REFUND_REVIEW", "REQUEST_CUSTOMER_EVIDENCE", "INVALID"}
    MaxAttempts = 2
    PoolCapacity = 2
    BatchSize = 2
    NoTxn = NoTxn
SYMMETRY Symmetry
INVARIANTS
    TypeOK
    QueuedTicketHasLiveTask
    AttemptsAreBounded
PROPERTIES
    TerminalTaskIsFinal
    FollowsLifecycle
CHECK_DEADLOCK FALSE
