CONSTANTS
    t1 = t1
    t2 = t2
    Timers <- MCTimers
SPECIFICATION AppSpec
INVARIANT TimersReleased
