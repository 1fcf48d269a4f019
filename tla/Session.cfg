SPECIFICATION SessionSpec
CONSTANTS
    e1 = e1
    e2 = e2
    None = None
    Sessions <- BothSessions
    Persistent <- FirstSession
    Size = 1
    MaxEvents <- EventsOfBoth
    PipeSize = 2
INVARIANTS NoGaps DeliveredIsStored EndIsReported
PROPERTY SilentAfterEnd
CHECK_DEADLOCK FALSE
