\* One agent, its proposal and repeated decisions, under every fault.
SPECIFICATION AgentSpec
CONSTANTS
    Call = {c1, c2, c3, c4}
    Thread = {t1}
    NoCall = NoCall
    Faults = {"crash", "store", "tool", "refusal"}
    Serial = FALSE
    ReuseThreads = TRUE
SYMMETRY Symmetry
INVARIANTS
    VoteIsHonoured
    ExecutesWhatWasProposed
    AnswerIsTheOutcome
    AskingAgainHelps
PROPERTIES
    ToolWriteSpec
\* Every call may have been made: the agent has to make no other.
CHECK_DEADLOCK FALSE
