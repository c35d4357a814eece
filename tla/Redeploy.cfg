\* A headless deployment with Drive, its token pasted once; nothing fails.
SPECIFICATION Spec
CONSTANTS
    Settings <- Headless
    EnvTokens <- LocalConsent
    Scripts = {}
    Faults = {}
INVARIANTS
    TokenIsSetUpOnce
CHECK_DEADLOCK FALSE
