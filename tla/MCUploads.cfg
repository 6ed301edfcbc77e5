SPECIFICATION UploadsSpec
CONSTANTS
    SessionIds = {r1, r2, r3}
    r1 = r1
    r2 = r2
    r3 = r3
    Snapshots <- MCSnapshots
    MaxSessions = 2
    MaxSize = 1
    MaxRecorded = 2
INVARIANTS
    UploadsTypeOK
    EvictedOnlyWhenStale
    LiveSessionIsComplete
    FinalMeansStored
    ProgressNeverGoesBack
PROPERTY
    ImplementsRecencyCache
CHECK_DEADLOCK FALSE
