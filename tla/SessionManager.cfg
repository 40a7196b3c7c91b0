\* Two processes of one plugin, so that plugin-wide commands have work to do,
\* and as many thread addresses as keys, so that addresses are used again.
\* A worker stranded in its confirmation blocks the GUI thread for good, hence
\* no deadlock check.
SPECIFICATION FairSpec
CONSTANTS
    k1 = k1
    k2 = k2
    p1 = p1
    Keys = {k1, k2}
    Plugins = {p1}
    PluginOf <- SamePlugin
    Overlays = {}
    Threads = {t1, t2}
    Args = {a1}
    Configs = {c1}
    None = None
    MaxSignals = 2
INVARIANTS
    OneWorkerPerKey
    WorkersAccounted
    AnswerReachesAsker
    UnloadedIsQuiet
PROPERTIES
    LifecycleSpec
    StopsEnd
CHECK_DEADLOCK FALSE
