CONSTANTS
    Urls <- MCUrls
    RequestUrls <- MCRequestUrls
    Methods = {"Get", "Post"}
    Tokens = {"Get", "Post"}
    Statuses = {"Created"}
    MaxHandlers = 1
    MaxBody = 1
    MaxPackets = 1
    MaxAnswers = 1
SPECIFICATION HttpSpec
INVARIANTS CompletionHasRequest
CHECK_DEADLOCK FALSE
