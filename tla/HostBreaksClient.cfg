SPECIFICATION HostSpec
CONSTANTS
    t1 = t1
    t2 = t2
    o1 = o1
    i1 = i1
    None = None
    Requests <- TwoRequests
    Ids <- OneId
    IdOf <- SharedId
    Known <- TwoRequests
    Unknown <- OnlySecond
    HandlerResults <- AllHandlerResults
    Outsiders <- NoOutsiders
INVARIANT HandlersDoNotBreakClient
CHECK_DEADLOCK FALSE
