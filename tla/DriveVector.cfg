SPECIFICATION Spec
CONSTANTS
    WIDTH = 4
    Lengths = {0, 1, 3, 4, 5}
INVARIANTS
    TypeOK
    DrivesValue
    Progress
