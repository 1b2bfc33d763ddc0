SPECIFICATION Spec
CONSTANTS
    r1 = r1
    r2 = r2
    w1 = w1
    w2 = w2
    None = None
    MaxEvents = 2
    MaxFaults = 1
    BufSize = 2
    BackfillChunks = 4
    ChunkSize = 2
    Concurrency = 2
    Total = 11
    ResumeAttempts = 1
    MaxBreaks = 1
    MaxRev = 2
    UploadChunks = 2
    FetchChunks = 3
    MaxSize = 3
INVARIANTS
    VersionRight
    
    CommittedWholeUnlessFull
    StreamIntact
    NeverStuck
    UploadFaithful
    FetchFaithful
    AnswersFaithful
CHECK_DEADLOCK FALSE
