\* Two bootstrap hooks, as with IL2CPP: a game thread installs hooks while the
\* constructor still does.  The patch of b lies within an aligned word, m has
\* an instruction that begins in its tail; the table has room for two of them.
\* Crashed threads and a library that is gone take no step, hence no deadlock
\* check.
SPECIFICATION Spec
CONSTANTS
    a = a
    b = b
    Funcs = {a, b, m}
    None = None
    Natives <- Il2cppNatives
    Triggers = {a, b}
    OneWord = {b}
    Inner = {m}
    Threads = {t1, t2}
    Lib = Lib
    MaxHooks = 2
INVARIANTS
    CodeIsWhole
    InsideIsSafe
PROPERTIES
    UnloadEnds
CHECK_DEADLOCK FALSE
