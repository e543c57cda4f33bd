SPECIFICATION Spec
CONSTANTS
    Cores = {c1, c2}
    Regs = {8}
    Words = {0, 1}
    Addrs = {0}
    START_ADDRESS = 0
    ResetWindow <- SyncWindow
    Monitor = Monitor
    None = None
    U = U
    c1 = c1
    c2 = c2
INVARIANTS
    SampleShowsAccess
    SampleShowsRegisters
    OneStepPerCycle
    IndInv
PROPERTIES
    BusSpec
