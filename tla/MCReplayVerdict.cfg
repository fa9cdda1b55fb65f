\* Is a valid verdict a verdict on a healthy run?.
SPECIFICATION Spec
CONSTANTS
    Keys <- MCKeys
    Actors <- MCActors
    ActorOf <- MCActorOf
    Ops <- MCOps
    Expected <- MCExpected
    CutoffExpected <- MCCutoffExpected
    Composite = {"c1"}
    PreDispatch = {}
    Identities <- MCIdentities
    Identity <- MCIdentity
    ModelCalls = {"call"}
    ModelCall <- MCModelCall
    CutoffActors = {"live", "other"}
    FastClaim = FALSE
    Required <- MCRequired
    MaxClock = 1
    Lanes <- MCLanes
    LaneActor <- MCLaneActor
    Attempts <- MCAttempts
    Recorded <- MCRecorded
    Shapes = {"chat", "drifted"}
    Shape <- MCShape
    OpCalls <- MCOps
    OpRequest <- MCOpRequest
    LLMCalls = {"m1", "k1", "s1", "next"}
    LLMRequest <- MCLLMRequest
    Place <- MCPlace
    AfterEnd <- MCAfterEnd
    AfterBytes <- MCAfterBytes
    Within <- MCWithin
    Work <- MCWork
    MaxFaults = 1
INVARIANT
    ValidVerdictIsHealthy
CHECK_DEADLOCK TRUE
