CONSTANTS
    Loggers = {c1}
    Admins = {a1}
    Levels = {0, 1}
    FileTypes = {File}
    LOG_TYPE_SCREEN = Screen
    NULL = NULL
    MAX_PER_LOGFILE_SIZE = 1
    LevelArgs = {2}
    LargerSizes = {2}
    SameSecond = FALSE
    WritesFail = TRUE
    MaxLines = 2
    MaxFiles = 2
SPECIFICATION FairSpec
CHECK_DEADLOCK FALSE
INVARIANTS
    PrintedInOrder
    FilesKept
PROPERTY AcceptedIsPrinted
