SPECIFICATION Spec
CONSTANTS
    Threads = {t1, t2}
    Chains = {a1, a2, b1}
    Owner <- Owners
    Api <- Apis
    Resized = {a1, b1}
    Replaced = {a1}
    t1 = t1
    t2 = t2
    a1 = a1
    a2 = a2
    b1 = b1
    None = None
    Limit = 2
INVARIANTS
    InsideIsSafe
    TargetsFit
    StagingAccounted
CHECK_DEADLOCK FALSE
PROPERTIES
    OverlayFollows
    UnloadEnds
