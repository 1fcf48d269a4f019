SPECIFICATION FairPromptSpec
CONSTANTS
    e1 = e1
    None = None
    Sessions <- OneSession
    Persistent <- OneSession
    Size = 2
    MaxEvents <- EventsOfEach
    PipeSize = 3
    Early = 1
INVARIANTS PromptTypeOK TurnIsComplete SessionReleased
PROPERTY RunEnds
CHECK_DEADLOCK FALSE
