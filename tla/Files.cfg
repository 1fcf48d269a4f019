SPECIFICATION FairFilesSpec
CONSTANTS
    over = over
    make = make
    look = look
    b1 = b1
    Absent = Absent
    Calls <- FileCalls
    SafeCalls <- Safe
    SharedLimit = 2
    Name <- ToolOf
    Verdicts <- SomeRefused
    ThreadedCalls <- FileCalls
    DirectCalls <- DirectOnes
    Batches <- OneBatch
    Program <- BatchProgram
    Preregistered <- FileCalls
    SlowObserved <- NoCalls
    Arguments <- ArgumentsOf
    MaxRead = 1
    MaxList = 1
    Originals <- Before
INVARIANTS FilesTypeOK GatedFilesAreAtomic CreatedStays
PROPERTIES NoLateStart CallsEnd
CHECK_DEADLOCK FALSE
