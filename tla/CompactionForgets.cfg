SPECIFICATION CompactionSpec
CONSTANTS
    Sizes = {1, 3}
    KeepRecent = 3
    MaxCalls = 2
    MaxLog = 7
    MaxRunning = 2
CHECK_DEADLOCK FALSE
INVARIANTS
    NothingForgotten
