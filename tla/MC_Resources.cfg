CONSTANTS
    owner = owner
    Callers <- MCCallers
    Owner <- owner
    Intervals <- MCIntervals
    Elapsed <- MCElapsed
    MaxInits = 2
    MaxContexts = 3
    MaxHandlers = 2
    MaxBytes = 4
    MaxBuffer = 2
    MaxEmpty = 1
    MaxErrors = 1
    Files = {f1, f2}
    FileFds = {1, 2, 3}
    Pipes = {o1, o2}
    MaxPipes = 2
    MaxChildren = 3
    Paths = {"p", "q"}
    Rows <- MCRows
    MaxConnections = 3
    MaxStatements = 1
    MaxRows = 3
    Images = {i1, i2, i3}
    ImageSizes <- MCSizes
    Formats <- MCFormats
    Paddings = {0}
    Rois <- MCRois
    MaxBuffers = 2
    Luts = {l1, l2, l3}
    MaxTables = 3
    Tick = 400
    MaxTime = 4800
    Alphabet = {"a", "A", " ", ":", "/"}
    MaxText = 4
    MaxPattern = 2
    Unit = 2
    PriorityThreads = {t1, t2}
    Colon = ":"
    Slash = "/"
SPECIFICATION MCSpec
INVARIANTS
    ServesLive ResourcesOwned ResultsTruthful OutputEnds TableRowMajor
    OwnersCounted PixelsExact ElapsedExact StringsExact
