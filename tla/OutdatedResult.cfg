\* The outdated result of round two arrives during round three.
SPECIFICATION Spec
CONSTANTS
    Tickets = {t1}
    NoTicket = NoTicket
    Tasks = {k1, k2, k3}
    Approvals = {a1}
    Requests = {r1}
    Answers = {"ESCALATE_REFUND_REVIEW"}
    MaxAttempts = 1
    PoolCapacity = 3
    BatchSize = 1
    NoTxn = NoTxn
SYMMETRY Symmetry
PROPERTIES
    OutdatedTaskLeavesTicketAlone
CHECK_DEADLOCK FALSE
