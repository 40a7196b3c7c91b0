\* Every plugin on every system, with failing injectors and injectors that
\* outlive the wait: two pids one after the other, and two workers that take
\* over.  A worker may wait for a confirmation for ever, hence no deadlock check.
SPECIFICATION FairSpec
CONSTANTS
    Builds <- AllBuilds
    Refusals = TRUE
    Timeouts = TRUE
    MaxPid = 2
    MaxLoads = 3
    MaxWorkers = 2
INVARIANTS
    LoadIsAllowed
    UnloadsItsOwn
    ReaderIsSafe
PROPERTIES
    StopEnds
    ProcessIsNoticed
CHECK_DEADLOCK FALSE
