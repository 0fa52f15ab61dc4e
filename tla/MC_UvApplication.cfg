CONSTANTS
    Timers = {t1, t2}
    Posters = {u1, u2}
    Tasks = {f1, f2}
    MaxPosts = 4
    Processes = {p1, p2}
    Pids = {1, 2}
    PidReuse = FALSE
    MaxSpawns = 1
SPECIFICATION MCSpec
INVARIANTS
    CloseComplete
    NoStranded
    OnCloseOnce StatusTruthful
PROPERTIES
    StopEndsRun CloseReturns
    KeepsTaskQueue PostedRuns
    CloseReported
