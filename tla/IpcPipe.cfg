\* Two threads that send while the pipe is being closed, with a buffer that is
\* full after one message, and signals at any time.  Once everybody is done the
\* system stops, hence no deadlock check.
SPECIFICATION Spec
CONSTANTS
    Builds = {"linux", "windows"}
    Senders = {t1, t2}
    MaxSends = 2
    Capacity = 2
INVARIANTS
    NothingLeftOpen
PROPERTIES
    KeepsPromise
    NobodyIsStuck
CHECK_DEADLOCK FALSE
