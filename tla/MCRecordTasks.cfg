\* Is the closed work of an open task kept whatever its siblings did?
SPECIFICATION Spec
CONSTANTS
    Attempts <- MCSiblingAttempts
    Streamed = {}
    Ops <- MCSiblingOps
    Posted = {"A", "B"}
    Composite = {"A", "B"}
    Trigger <- MCSiblingTrigger
    Calls <- MCSiblingCalls
    Parent <- MCSiblingParent
    NoParent = "none"
    After <- MCSiblingAfter
    Captures = FALSE
    MaxClock = 2
INVARIANT
    DescendantsArePreserved
CHECK_DEADLOCK TRUE
