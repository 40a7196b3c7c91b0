\* Two sources and the end of the worker at any step.  The clock stops, and
\* with it the system, hence no deadlock check.
SPECIFICATION DebounceSpec
CONSTANTS
    Sources = {s1, s2}
    Interval = 2
    MaxTime = 5
    MaxChars = 3
INVARIANTS
    TextIsWhole
PROPERTIES
    TextIsShown
CHECK_DEADLOCK FALSE
