SPECIFICATION DashboardSpec
SYMMETRY MCSymmetry
CONSTANTS
    Keys = {ka, kb}
    Blank = Blank
    Ttls = {0, 1}
    FirstTtl = 3
    MaxTtl = 2
    MaxLag = 1
    Skews <- MCSkews
    MaxNow = 6
    Tenants = {alpha}
    Tours <- MCTours
    Files = {fa, fb, fc}
    NoFile = NoFile
    LabFiles = {la, lb}
    MaxPuts = 3
    IdemKeys = {idemA, idemB}
    FirstKey = idemA
    MaxClicks = 3
    MaxCalls = 2
    Tried <- MCTried
    Environments <- MCEnvironments
    Buckets = {vault, archive, versioned}
    MaxChanges = 2
INVARIANTS
    DashboardTypeOK
    SignedUrlIsTold
    NoInfectedAtRest
    OutcomeOfLastTrigger
    OutcomeAsLabelled
    ShownStateIsTrue
    SequentialUploadIsOwn
    RunningStepHasARequest
    LogIsTrue
CHECK_DEADLOCK FALSE
