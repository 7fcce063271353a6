CONSTANTS
    Callers = {a1, a2}
    Loop = Loop
    k1 = k1
    k2 = k2
    k3 = k3
    o1 = o1
    o2 = o2
    f1 = f1
    f2 = f2
    Calls <- MCCalls
    Cbs <- MCCbs
    Held <- MCHeld
    CbOf <- MCCbOf
    NULL = NULL
    Files <- MCFiles
    NoMethod = NoMethod
    Asked <- MCAsked
    RunModes = {"default", "once"}
SPECIFICATION MCSpec
CHECK_DEADLOCK FALSE
INVARIANTS
    RefCountExact
    NoStrandedCall
    DestructorFate
PROPERTIES
    ImplementsCallQueue
    QueuedIsCalled
    OperationAnswered
