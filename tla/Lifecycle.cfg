SPECIFICATION Spec
CONSTANTS
    Instances = {i1, i2}
    i1 = i1
    i2 = i2
    None = None
    MaxRestarts = 1
    Names <- MCNames
    Files <- MCFiles
    MAX_WORD = 3
    NulChar = NulChar
    MapSize = 3
    START_ADDRESS = 0
INVARIANTS
    TypeOK
    NoDoubleRelease
    AllReleased
    NoUseAfterRelease
    LoadsOwnImage
