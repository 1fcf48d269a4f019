SPECIFICATION FairGateSpec
CONSTANTS
    s1 = s1
    s2 = s2
    s3 = s3
    x1 = x1
    x2 = x2
    Calls <- ThreeSharedTwoExclusive
    SafeCalls <- ThreeShared
    SharedLimit = 2
INVARIANTS GateTypeOK Exclusion NoLostWakeup
PROPERTIES NoOvertaking ImplementsLock
