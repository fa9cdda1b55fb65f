SPECIFICATION Spec
CONSTANTS
    force = force
    capture = capture
    plain = plain
    a = a
    b = b
    Requests <- MCRequests
    Mode <- MCMode
    Tokens <- MCTokens
    Start <- MCStart
    Expected <- MCExpected
    CommitLength <- MCCommitLength
    CommitStarts <- MCCommitStarts
    Vocabulary = {a, b}
    MaxRows = 2
    Natural <- MCNatural
    MaxDrawn <- MCMaxDrawn
    AsyncLag = 1
    Histories <- MCHistories
    ForeignLines <- MCForeignLines
    MaxFaults = 1
INVARIANTS TypeOK RowsMatch AuditsAreTrue AcceptedIsEarned EvidenceIsTheWindow
PROPERTIES RecordReachesItsWaiter
CHECK_DEADLOCK FALSE
