\* A single Salesforce request on a server that outlives its access token.
SPECIFICATION Spec
CONSTANTS
    Call = {c1}
    Configurations <- OnSalesforce
    Faults = {}
    Messages <- MCMessages
INVARIANTS
    StatusIsNotRetried
CHECK_DEADLOCK FALSE
