\* Every combination of settings, restarts at any time, every fault.
SPECIFICATION Spec
CONSTANTS
    Settings <- MCSettings
    EnvTokens <- MCEnvTokens
    Scripts = {"excel"}
    Faults = {"network", "name", "crash"}
INVARIANTS
    TypeOK
    ConnectorsMatchSettings
    StartsWithoutGoogle
    CredentialsCoverScopes
    RestartsComeUp
CHECK_DEADLOCK FALSE
