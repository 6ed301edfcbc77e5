SPECIFICATION Spec
CONSTANTS
    Slugs <- MCSlugs
    Names <- TwoNames
    Categories <- MCCategories
    Clears = {c1}
    PageSize = 2
    VaultKeys = {}
INVARIANT ListsOnlyItsOwn
CHECK_DEADLOCK FALSE
