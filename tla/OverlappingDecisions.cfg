\* Two decisions on one action overlap; nothing fails.
SPECIFICATION Spec
CONSTANTS
    Call = {c1, c2, c3}
    Thread = {t1}
    NoCall = NoCall
    Faults = {}
    Serial = FALSE
    ReuseThreads = FALSE
SYMMETRY Symmetry
INVARIANTS
    RejectionSendsNothing
CHECK_DEADLOCK FALSE
