\* One task id, four requests, two snapshots.
SPECIFICATION Spec
CONSTANTS
    Requests = {r1, r2, r3, r4}
    Snapshots = {s1, s2}
    NoRun = NoRun
    NoOutput = NoOutput
SYMMETRY Symmetry
INVARIANTS
    OverlapOnlyAfterFailure
    SavedResultFitsRun
    AnswerFitsRequest
    RunningRunHasHandler
PROPERTY RunKeepsSnapshot
CHECK_DEADLOCK FALSE
