\* A conforming framework without faults; a session lane the source had only opened.
SPECIFICATION Spec
CONSTANTS
    Keys <- MCKeys
    Actors <- MCActors
    ActorOf <- MCActorOf
    Ops <- MCOps
    Expected <- MCExpected
    CutoffExpected <- MCCutoffExpected
    Composite = {"c1"}
    PreDispatch = {}
    Identities <- MCIdentities
    Identity <- MCIdentity
    ModelCalls = {"call"}
    ModelCall <- MCModelCall
    CutoffActors = {"live", "other"}
    FastClaim = FALSE
    Required <- MCRequired
    MaxClock = 1
    Lanes <- MCFreshLanes
    LaneActor <- MCFreshLaneActor
    Attempts <- MCAttempts
    Recorded <- MCFreshRecorded
    Shapes = {"chat", "drifted"}
    Shape <- MCShape
    OpCalls <- MCOps
    OpRequest <- MCOpRequest
    LLMCalls = {"m1", "k1", "s1", "next", "first"}
    LLMRequest <- MCFreshLLMRequest
    Place <- MCFreshPlace
    AfterEnd <- MCFreshAfterEnd
    AfterBytes <- MCFreshAfterBytes
    Within <- MCFreshWithin
    Work <- MCWork
    MaxFaults = 0
INVARIANT
    OpenCallIsTolerated
CHECK_DEADLOCK TRUE
