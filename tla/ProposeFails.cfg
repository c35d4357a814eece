\* A store statement of propose_node fails, and the action is then decided.
SPECIFICATION Spec
CONSTANTS
    Call = {c1, c2, c3}
    Thread = {t1}
    NoCall = NoCall
    Faults = {"store"}
    Serial = TRUE
    ReuseThreads = FALSE
SYMMETRY Symmetry
INVARIANTS
    OneRecordPerProposal
CHECK_DEADLOCK FALSE
