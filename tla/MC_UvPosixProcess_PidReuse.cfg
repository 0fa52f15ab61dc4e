CONSTANTS
    p1 = p1
    p2 = p2
    Processes <- MCProcesses
    Pids = {1, 2}
    PidReuse = TRUE
    MaxSpawns = 1
SPECIFICATION ProcessSpec
INVARIANT EchildStatusSet
CHECK_DEADLOCK FALSE
