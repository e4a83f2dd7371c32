SPECIFICATION Spec
CONSTANTS
    Contents = {t1, t2}
    Uploads = {u1, u2}
    Rebuilders = {r1, r2}
    Readers = {q1}
    NoIndex = NoIndex
    Idle = Idle
    MaxDocuments = 2
    MaxEdits = 1
    MaxRebuilds = 2
SYMMETRY Symmetry
INVARIANTS
    PointerIsComplete
    AnswerIsWhole
    UploadsAreUnique
    CountFitsIndex
PROPERTY IndexIsAtomic
CHECK_DEADLOCK FALSE
