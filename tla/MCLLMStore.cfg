\* LLM claims, forced and unforced, under arbitrary client behaviour.
SPECIFICATION Spec
CONSTANTS
    Lanes <- MCLanes
    LaneActors <- MCLaneActors
    LaneActor <- MCLaneActor
    Attempts <- MCAttempts
    Recorded <- MCRecorded
    Shapes <- MCShapes
    Shape <- MCShape
    LiveActors = {"live"}
INVARIANTS TypeOK NoSilentLoss EvidenceIsEarned HeldLaneIsFinished
PROPERTIES ImplementsContract
CHECK_DEADLOCK TRUE
