SPECIFICATION Spec
CONSTANTS
    Workers = {"w1", "w2"}
    Tasks = {"t1", "t2", "t3"}
    Actors = {"t1", "t2", "t3", "team"}
    Processes = {"w1", "w2", "main"}
    Queue <- MCQueue
    Calls <- MCCalls
    MaxFaults = 1
    Agents = {"a1", "a2"}
    Manager = "w1"
    Team = "team"
    Recorded <- MCRecorded
    Exits <- MCExits
    Attempts = {"g1", "g2"}
    SubmittedAt <- MCSubmittedAt
    Trigger <- MCTrigger
    MaxTurns = 6
INVARIANTS TypeOK StartTogether LanesAreSerial OpenTasksAreExcused
PROPERTIES RestartCutsNothing RecordedInvocationsStart
CHECK_DEADLOCK FALSE
