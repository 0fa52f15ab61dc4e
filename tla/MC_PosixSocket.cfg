CONSTANTS
    s1 = s1
    s2 = s2
    Sockets <- MCSockets
    Descriptors = {1, 2, 3, 4}
    MaxWakeups = 2
SPECIFICATION SocketSpec
INVARIANTS DescriptorsOwned WakeupsExact
PROPERTIES WakeupEndsPoll
