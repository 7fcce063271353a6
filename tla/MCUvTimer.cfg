CONSTANTS
    Clients = {c1, c2}
    Deleters = {c1, c2}
    MaxTimers = 4
    Repeating <- MCRepeating
    CallbacksUseTimers = TRUE
SPECIFICATION FairSpec
CHECK_DEADLOCK FALSE
INVARIANTS
    DeletedIsSilent
    NewTimerIsSeen
PROPERTY AddedIsStarted
