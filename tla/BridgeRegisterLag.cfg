SPECIFICATION Spec
CONSTANTS
    Cores = {c1}
    Regs = {8}
    Words = {0, 1}
    Addrs = {0}
    START_ADDRESS = 0
    ResetWindow <- SyncWindow
    Monitor = Monitor
    None = None
    U = U
    c1 = c1
INVARIANTS
    SampleShowsResult
