SPECIFICATION Spec
CONSTANTS
    k1 = k1
    k2 = k2
    v1 = v1
    v2 = v2
    d1 = d1
    d2 = d2
    Deletes = {d1, d2}
    Keys = {k1, k2}
    Views = {v1, v2}
    Within <- MCWithin
    FirstView = v1
    None = None
    Bulk = Bulk
    MaxClicks = 4
SYMMETRY Interchangeable
INVARIANTS
    TypeOK
    ReportedIsUnlisted
    DrawerShowsItsUrl
CHECK_DEADLOCK FALSE
