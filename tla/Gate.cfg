\* Every interleaving and every fault; process ids are reused.
SPECIFICATION Spec
CONSTANTS
    Call = {c1, c2, c3}
    Thread = {t1}
    NoCall = NoCall
    Faults = {"crash", "store", "tool", "refusal"}
    Serial = FALSE
    ReuseThreads = TRUE
SYMMETRY Symmetry
INVARIANTS
    TypeOK
    IInv
    NoEffectWithoutApproval
    ExecutesWhatWasRecorded
    EffectIsAudited
    OneDecisionEvent
    ReportedWritesHappened
PROPERTIES
    DecisionIsFinal
CHECK_DEADLOCK FALSE
