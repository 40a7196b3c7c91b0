SPECIFICATION Spec
CONSTANTS
    Devices = {d1, d2}
    Swaps = {s1, s2}
    Graphics = {d1}
    FormatOf <- Fmts
    s1 = s1
    s2 = s2
    f1 = f1
    f2 = f2
    None = None
    InFlight = 2
    MaxMade = 4
    MaxPresents = 3
    MaxFaults = 1
INVARIANTS
    SemaphoresPaired
    FramebuffersFit
    BusyIsLeftAlone
    StagingAccounted
PROPERTY CallsReturn
CHECK_DEADLOCK FALSE
