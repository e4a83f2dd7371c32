\* One ticket, three rounds with the AI, two requests at once, every answer; one attempt per round.
SPECIFICATION Spec
CONSTANTS
    Tickets = {t1}
    NoTicket = NoTicket
    Tasks = {k1, k2, k3}
    Approvals = {a1, a2, a3}
    Requests = {r1, r2}
    Answers = {"REQUEST_COUPON_APPROVAL", "ESCALATE_REFUND_REVIEW", "REQUEST_CUSTOMER_EVIDENCE", "QUERY_LOGISTICS", "ESCALATE_TO_HUMAN", "INVALID"}
    MaxAttempts = 1
    PoolCapacity = 3
    BatchSize = 3
    NoTxn = NoTxn
SYMMETRY Symmetry
INVARIANTS
    CurrentTaskMeansQueued
    OneOpenApprovalPerType
    MoneyMovesOnce
    OneCouponPerTicket
PROPERTIES
    AppliedToItsVersion
CHECK_DEADLOCK FALSE
