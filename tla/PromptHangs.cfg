SPECIFICATION FairPromptSpec
CONSTANTS
    e1 = e1
    None = None
    Sessions <- OneSession
    Persistent <- OneSession
    Size = 2
    MaxEvents <- EventsOfEach
    PipeSize = 3
    Early = 1
PROPERTY RunNoticesExit
CHECK_DEADLOCK FALSE
