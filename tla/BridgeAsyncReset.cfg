SPECIFICATION Spec
CONSTANTS
    Cores = {c1}
    Regs = {8}
    Words = {0, 1}
    Addrs = {0, 4}
    START_ADDRESS = 0
    ResetWindow <- FreeWindow
    Monitor = Monitor
    None = None
    U = U
    c1 = c1
INVARIANTS
    EdgeSynchronous
