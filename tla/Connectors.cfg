\* Two calls of any methods, interleaved, under every fault.
SPECIFICATION FairSpec
CONSTANTS
    Call = {c1, c2}
    Configurations <- MCConfigurations
    Faults = {"lost", "status", "store", "crash", "revoked", "moved"}
    Messages <- MCMessages
INVARIANTS
    TypeOK
    WritesOnce
    SuccessIsReal
    FailureIsRecorded
    AuditedBeforeWriting
    FolderRespected
    WorkbookKeepsWrites
PROPERTIES
    ToolWriteSpec
    EveryCallIsAnswered
\* A server may stop serving: a call that is answered or dead stays so.
CHECK_DEADLOCK FALSE
