\* One call at a time per process id, one write per process id, no fault.
SPECIFICATION FairSpec
CONSTANTS
    Call = {c1, c2, c3}
    Thread = {t1, t2}
    NoCall = NoCall
    Faults = {"refusal"}
    Serial = TRUE
    ReuseThreads = FALSE
INVARIANTS
    PendingIsDecidable
    RejectionSendsNothing
PROPERTIES
    GateSpec
    ApprovedIsExecuted
CHECK_DEADLOCK FALSE
