SPECIFICATION SignedSpec
CONSTANTS
    k1 = k1
    k2 = k2
    Keys = {k1}
    Calls = {c1}
    MaxPuts = 2
    Copied <- CopiedObjects
    Parts = {1}
    KeyPrefix <- PrefixSegments
    AbortKeys <- AbortPaths
INVARIANT ConfirmedObjectPassedAll
CHECK_DEADLOCK FALSE
