SPECIFICATION CoSimSpec
CONSTANTS
    Dut = c1
    Cores = {c1}
    Regs = {}
    Words = {0, 13, 353}
    Addrs = {0, 1048576}
    START_ADDRESS = 0
    ResetWindow = {"0"}
    Monitor = Monitor
    None = None
    U = U
    c1 = c1
    DEBUGPORT = 1048576
    ResetHalves = 10
    Graphic = {97}
    Control = {}
    CR = 13
    LF = 10
    NUL = 0
    Dot = Dot
    Prefix = Prefix
    MAXCHAR_C = 2
    MaxSent = 3
    MaxRestarts = 1
INVARIANTS
    CoSimTypeOK
    CleanStart
PROPERTIES
    MonitorSpec
    LineWritten
