\* One process id is given to two writes; clients take turns and nothing fails.
SPECIFICATION Spec
CONSTANTS
    Call = {c1, c2, c3}
    Thread = {t1}
    NoCall = NoCall
    Faults = {}
    Serial = TRUE
    ReuseThreads = TRUE
SYMMETRY Symmetry
INVARIANTS
    ExecutesWhatWasReviewed
CHECK_DEADLOCK FALSE
