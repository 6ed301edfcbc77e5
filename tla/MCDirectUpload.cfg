SPECIFICATION SignedSpec
CONSTANTS
    k1 = k1
    k2 = k2
    Keys = {k1}
    Calls = {c1, c2}
    MaxPuts = 2
    Copied <- CopiedObjects
    Parts = {1, 2}
    KeyPrefix <- PrefixSegments
    AbortKeys <- AbortPaths
SYMMETRY CallSymmetry
INVARIANTS
    SignedTypeOK
    UndisturbedConfirmIsTrue
    ConfirmedAfterExpiryForGood
    ThreatsAndOnlyTheyDisappear
    AbortSettles
CHECK_DEADLOCK FALSE
