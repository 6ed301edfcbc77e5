SPECIFICATION Spec
CONSTANTS
    Keys = {a, b}
    Requests = {r1, r2}
    MaxVersion = 3
SYMMETRY RequestSymmetry
INVARIANTS
    TypeOK
    AnswersWereTrue
    RenameMovesOrKeeps
CHECK_DEADLOCK FALSE
