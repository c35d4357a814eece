\* Three calls of any methods of either store, interleaved, under every fault.
SPECIFICATION FairSpec
CONSTANTS
    Call = {c1, c2, c3}
    NoCall = NoCall
    Server = {s1, s2}
    s1 = s1
    s2 = s2
    Field = {f1, f2}
    Configurations <- MCConfigurations
INVARIANTS
    TypeOK
    HistoryInOrder
    NothingReturnedIsLost
    DeciderIsOnRecord
    RaisesOnlyInOutage
PROPERTIES
    ContractSpec
    EveryMethodEnds
\* Every call may have been made: nobody has to make another one.
CHECK_DEADLOCK FALSE
