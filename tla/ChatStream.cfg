SPECIFICATION FairChatSpec
CONSTANTS
    a = a
    hello = hello
    o1 = o1
    o2 = o2
    NoUsage = NoUsage
    Malformed = Malformed
    Ids <- mcIds
    Texts <- mcTexts
    Objects <- mcObjects
    Events <- mcEvents
    UpstreamStatuses = {200, 302, 429}
    MaxEvents = 3
INVARIANTS
    ChatTypeOK
    SuccessIsWhole
    StreamEqualsOutcome
    UpstreamOnlyForValidRequests
    AtMostOneLateEvent
PROPERTIES
    HandlerReturns
    KeepsContract
