\* A coupon approval whose transaction rolls back after the gateway call.
SPECIFICATION Spec
CONSTANTS
    Tickets = {t1}
    NoTicket = NoTicket
    Tasks = {k1, k2}
    Approvals = {a1, a2}
    Requests = {r1}
    Answers = {"REQUEST_COUPON_APPROVAL", "ESCALATE_REFUND_REVIEW"}
    MaxAttempts = 1
    PoolCapacity = 2
    BatchSize = 1
    NoTxn = NoTxn
SYMMETRY Symmetry
INVARIANTS
    IssuedCouponIsRecorded
CHECK_DEADLOCK FALSE
