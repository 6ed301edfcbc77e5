SPECIFICATION Spec
CONSTANTS
    Slugs <- MCSlugs
    Names <- TwoNames
    Categories <- MCCategories
    Clears = {c1, c2}
    PageSize = 2
    VaultKeys <- MCVaultKeys
INVARIANTS
    TypeOK
    ClearedOrReported
PROPERTIES
    Isolation
    ClearEnds
CHECK_DEADLOCK FALSE
