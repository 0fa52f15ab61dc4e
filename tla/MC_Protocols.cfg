CONSTANTS
    Urls <- MCUrls
    RequestUrls <- MCRequestUrls
    Methods = {"Get", "Post"}
    Tokens = {"Get", "Post", "Connect"}
    Statuses = {"Created"}
    MaxHandlers = 3
    MaxBody = 2
    MaxPackets = 2
    MaxAnswers = 2
    exact = exact
    wildcard = wildcard
    topic = topic
    other = other
    NoPattern = NoPattern
    Patterns <- MCPatterns
    Topics <- MCTopics
    MatchesSub <- MCMatches
    MaxMids = 3
    MaxLoops = 2
    MaxMessages = 1
SPECIFICATION MCSpec
INVARIANTS
    RequestHandled AnswerWhole
    LoopOnce DeliveredExact ConfirmedExact
PROPERTIES
    AnswerCompletes
    ConnectAnswered
