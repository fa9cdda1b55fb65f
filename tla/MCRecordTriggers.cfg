\* Does the closure keep the response that asked for an operation?
SPECIFICATION Spec
CONSTANTS
    Attempts <- MCAttempts
    Streamed = {"p"}
    Ops <- MCOps
    Posted = {"A", "B"}
    Composite = {"A", "B"}
    Trigger <- MCTrigger
    Calls <- MCCalls
    Parent <- MCParent
    NoParent = "none"
    After <- MCAfter
    Captures = TRUE
    MaxClock = 2
INVARIANT
    TriggersSurvive
CHECK_DEADLOCK TRUE
