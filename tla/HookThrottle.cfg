\* Two threads call one hook while the clock passes 0; a pause fits into the
\* time twice.  The clock stops, hence no deadlock check.
SPECIFICATION ThrottleSpec
CONSTANTS
    SpecCount = 1
    Callers = {t1, t2}
    CheckEach = 1
    Window = 3
    Rate = 0
    FuseCalls = 2
    FuseTicks = 1
    Pauses <- MCPauses
    Wrap = 16
    Start = 13
    MaxTime = 20
    MaxCalls = 6
    Stall = 1
INVARIANTS
    OneSweeper
    StrikePerSwitchOff
PROPERTIES
    PauseIsKept
CHECK_DEADLOCK FALSE
