SPECIFICATION FairClientSpec
CONSTANTS
    q1 = q1
    q2 = q2
    k1 = k1
    k2 = k2
    None = None
    Starter = starter
    Requesters <- TwoRequests
    Closers <- TwoClosers
    Cancellable <- OneOfEach
INVARIANTS ClientTypeOK Correlation InitializeFirst ClosedMeansQuiet
PROPERTY ClientCallsEnd
CHECK_DEADLOCK FALSE
