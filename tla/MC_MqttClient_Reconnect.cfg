CONSTANTS
    exact = exact
    wildcard = wildcard
    topic = topic
    other = other
    NoPattern = NoPattern
    Patterns <- MCPatterns
    Topics <- MCTopics
    MatchesSub <- MCMatches
    MaxMids = 1
    MaxLoops = 1
    MaxMessages = 1
SPECIFICATION MqttSpec
PROPERTY ReconnectAnswered
