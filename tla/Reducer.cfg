SPECIFICATION ReducerSpec
CONSTANTS
    a = a
    b = b
    hello = hello
    o1 = o1
    o2 = o2
    NoUsage = NoUsage
    Ids <- mcIds
    Texts <- mcTexts
    Objects <- mcObjects
    Events <- mcEvents
    MaxEvents = 4
INVARIANTS
    ReducerTypeOK
    ToolIndexAgrees
    ToolsAreFirstCalls
    EarnedCompletion
    ReasonHonest
    UsageIsLastReported
\* The upstream may end its stream after any event.
CHECK_DEADLOCK FALSE
