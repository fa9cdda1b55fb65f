\* Replay claims under arbitrary client behaviour.
SPECIFICATION Spec
CONSTANTS
    Keys <- MCKeys
    Actors <- MCActors
    ActorOf <- MCActorOf
    Ops <- MCOps
    Expected <- MCExpected
    CutoffExpected <- MCCutoffExpected
    Composite = {"c1"}
    PreDispatch = {"p1"}
    Identities <- MCIdentities
    Identity <- MCIdentity
    ModelCalls = {"call1", "call2"}
    ModelCall <- MCModelCall
    CutoffActors = {"live", "other"}
    FastClaim = FALSE
    Required <- MCRequired
    MaxClock = 2
INVARIANTS
    TypeOK
    EveryEntryAccounted
    NoEarlyHold
    EvidenceMatchesRecording
    CompletionIsConsumed
PROPERTIES
    ImplementsContract
    CompletionIsFinal
CHECK_DEADLOCK TRUE
