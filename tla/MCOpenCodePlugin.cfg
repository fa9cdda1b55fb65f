SPECIFICATION Spec
CONSTANTS
    Calls <- MCCalls
    TaskCalls <- MCTaskCalls
    SessionOf <- MCSessionOf
    Children <- MCChildren
    TaskOf <- MCTaskOf
    After <- MCAfter
    Bypass = {"second"}
    Childless = {"second"}
    MaxFaults = 1
INVARIANTS TypeOK BoundaryOrder HookedChildrenAreBound
PROPERTIES EndedIsReported
CHECK_DEADLOCK FALSE
