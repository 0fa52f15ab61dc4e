CONSTANTS
    owner = owner
    other = other
    job = job
    empty = empty
    Callers <- MCCallers
    Owner <- owner
    Intervals <- MCIntervals
    Elapsed <- MCElapsed
    MaxInits = 2
    Tasks <- MCTasks
    Empty <- empty
    MaxDispatches = 3
SPECIFICATION DispatcherSpec
INVARIANTS JoinedQuiet
PROPERTIES KeepsTaskQueue DispatchedRuns
