\* Can an attempt be closed and cut at once?
SPECIFICATION Spec
CONSTANTS
    Attempts <- MCAttempts
    Streamed = {"p"}
    Ops <- MCOps
    Posted = {"A", "B"}
    Composite = {"A", "B"}
    Trigger <- MCTrigger
    Calls <- MCCalls
    Parent <- MCParent
    NoParent = "none"
    After <- MCAfter
    Captures = TRUE
    MaxClock = 2
INVARIANT
    TailsAreNotClosed
CHECK_DEADLOCK TRUE
