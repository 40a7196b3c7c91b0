\* Three callers of which two share a home, in a table that is soon full.
SPECIFICATION Spec
CONSTANTS
    k1 = k1
    k2 = k2
    k3 = k3
    Keys = {k1, k2, k3}
    None = none
    Size = 3
    Probes = 2
    Home <- MCHome
    Threads = {t1, t2, t3}
INVARIANTS
    OneSlotPerCaller
    TextIsAttributed
