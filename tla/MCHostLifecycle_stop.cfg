\* Silent and stuck clients, a send timeout: stop() cleans up and returns.
SPECIFICATION FairSpec
CONSTANTS
    t1 = t1
    t2 = t2
    c1 = c1
    c2 = c2
    Threads = {t1, t2}
    Conns = {c1}
    Stuck = {c1}
    SendTimeout = TRUE
    MaxRuns = 2
INVARIANTS TypeOK NothingLeftBehind DetachedBeforeClosed
PROPERTY StopReturns
CHECK_DEADLOCK FALSE
