\* A completed run that a concurrent failure turns into a failed one.
SPECIFICATION Spec
CONSTANTS
    Requests = {r1, r2, r3, r4}
    Snapshots = {s1}
    NoRun = NoRun
    NoOutput = NoOutput
SYMMETRY Symmetry
PROPERTIES
    SucceededTaskIsNotAnalysedAgain
CHECK_DEADLOCK FALSE
