CONSTANTS
    owner = owner
    other = other
    Callers <- MCCallers
    Owner <- owner
    Intervals <- MCIntervals
    Elapsed <- MCElapsed
    MaxInits = 2
    t1 = t1
    worker = worker
    Senders = {t1}
    Service = worker
    MaxPackets = 2
    MaxSends = 1
    MaxReceived = 2
SPECIFICATION MCSpec
INVARIANTS
    ThreadExact
    PacketsExact ReceivedWhole
PROPERTIES
    FlagsKept WakeupServed StopTerminates
    SentIsWritten
