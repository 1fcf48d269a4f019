SPECIFICATION TranscriptSpec
CONSTANTS
    r1 = r1
    None = None
    Readers <- OneReader
    MaxEvents = 4
INVARIANTS TranscriptTypeOK AckedAreDurable ReadIsExact ReadableUnlessTorn
CHECK_DEADLOCK FALSE
