\* A recording with engine captures, cut at any instant.
SPECIFICATION Spec
CONSTANTS
    Attempts <- MCAttempts
    Streamed = {"p"}
    Ops <- MCOps
    Posted = {"A", "B"}
    Composite = {"A", "B"}
    Trigger <- MCTrigger
    Calls <- MCCalls
    Parent <- MCParent
    NoParent = "none"
    After <- MCAfter
    Captures = TRUE
    MaxClock = 2
INVARIANTS
    TypeOK
    AttemptsAccounted
    CutOpsStayOpen
    DescendantsSurvive
    CallsAreCovered
PROPERTIES
    LateWritesAreInWindow
CHECK_DEADLOCK TRUE
