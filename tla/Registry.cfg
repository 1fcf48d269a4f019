SPECIFICATION RegistrySpec
CONSTANTS
    s1 = s1
    s2 = s2
    x1 = x1
    late = late
    twin = twin
    b1 = b1
    b2 = b2
    Calls <- BatchCalls
    SafeCalls <- SafeOnes
    SharedLimit = 1
    Name <- OwnTool
    Verdicts <- SomeRefused
    ThreadedCalls <- NoCalls
    DirectCalls <- DirectOnes
    Batches <- TwoBatches
    Program <- BarrierProgram
    Preregistered <- BeforeLate
    SlowObserved <- SlowOnes
INVARIANTS NoSlotLeak BatchBarrier ResultsInOrder ObservedOnce
CHECK_DEADLOCK FALSE
