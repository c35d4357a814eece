\* The tool call of an approved write fails, and the action is then rejected.
SPECIFICATION Spec
CONSTANTS
    Call = {c1, c2, c3}
    Thread = {t1}
    NoCall = NoCall
    Faults = {"tool"}
    Serial = TRUE
    ReuseThreads = FALSE
SYMMETRY Symmetry
INVARIANTS
    RejectVoteSendsNothing
CHECK_DEADLOCK FALSE
