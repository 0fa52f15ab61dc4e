CONSTANTS
    owner = owner
    other = other
    Callers <- MCCallers
    Owner <- owner
    Intervals <- MCIntervals
    Elapsed <- MCElapsed
    MaxInits = 2
SPECIFICATION Spec
INVARIANT RequestedInterval
