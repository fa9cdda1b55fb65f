\* A conforming framework with at most one fault, to the verdict.
SPECIFICATION Spec
CONSTANTS
    Keys <- MCKeys
    Actors <- MCActors
    ActorOf <- MCActorOf
    Ops <- MCOps
    Expected <- MCExpected
    CutoffExpected <- MCCutoffExpected
    Composite = {"c1"}
    PreDispatch = {}
    Identities <- MCIdentities
    Identity <- MCIdentity
    ModelCalls = {"call"}
    ModelCall <- MCModelCall
    CutoffActors = {"live", "other"}
    FastClaim = FALSE
    Required <- MCRequired
    MaxClock = 1
    Lanes <- MCLanes
    LaneActor <- MCLaneActor
    Attempts <- MCAttempts
    Recorded <- MCRecorded
    Shapes = {"chat", "drifted"}
    Shape <- MCShape
    OpCalls <- MCOps
    OpRequest <- MCOpRequest
    LLMCalls = {"m1", "k1", "s1", "next"}
    LLMRequest <- MCLLMRequest
    Place <- MCPlace
    AfterEnd <- MCAfterEnd
    AfterBytes <- MCAfterBytes
    Within <- MCWithin
    Work <- MCWork
    MaxFaults = 1
INVARIANTS TypeOK NoFalseAlarm ValidMeansReplayed FreezeCutsNothing
PROPERTIES EventuallyDecided FaultlessRunIsValid
CHECK_DEADLOCK TRUE
