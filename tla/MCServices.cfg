SPECIFICATION Spec
CONSTANTS
    p1 = p1
    p2 = p2
    q1 = q1
    q2 = q2
    q3 = q3
    Nobody = Nobody
    None = None
    Capacity = 2
    RetentionDays = 1
    RefCheckInterval = 1
    Width = 4
INVARIANTS
    SpoolFaithful
    MirrorSound
    
    
    
    PublishedClean
    BundleShared
    ColdServed
    CountsComplete
    WritesAnswered
    FlushAnswered
    ReplayAgrees
    
CHECK_DEADLOCK FALSE
