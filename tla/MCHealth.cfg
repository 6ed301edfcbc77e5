SPECIFICATION Spec
CONSTANT MaxRetries = 3
INVARIANTS
    TypeOK
    LabelsAgree
PROPERTY ChipFollows
