\* Two threads that race on a ring of two entries for two texts while the
\* clock wraps around.  It stops, hence no deadlock check.
SPECIFICATION RepeatSpec
CONSTANTS
    Texts = {a, b}
    NoText = none
    Ring = 2
    RepeatWindow = 2
    TickWrap = 8
    FirstUse = 6
    LastTick = 10
    Delay = 1
    Reporters = {t1, t2}
INVARIANTS
    RepeatsAreRight
CHECK_DEADLOCK FALSE
