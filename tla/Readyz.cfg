SPECIFICATION Spec
CONSTANTS
    m1 = m1
    m2 = m2
    m3 = m3
    NoId = NoId
    NoOne = NoOne
    Unreachable = Unreachable
    Models <- mcModels
    Static <- mcStatic
    Replies <- mcReplies
    Refreshers = {r1}
    Clients = {c1}
    HasUpstreamKey = TRUE
    MaxRefreshes = 1
INVARIANT ReadyzDegradedOnFallback
