\* Order status and tracking may disagree.
SPECIFICATION Spec
CONSTANTS
    Answers <- AllAnswers
    MaxSteps = 10
    MaxSearches = 3
    RecursionLimit = 64
    Undecided = Undecided
    Cases <- ConflictCases
CHECK_DEADLOCK FALSE
INVARIANT CouponWithoutConflict
