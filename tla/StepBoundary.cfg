SPECIFICATION ReducerSpec
CONSTANTS
    a = a
    b = b
    hello = hello
    o1 = o1
    o2 = o2
    NoUsage = NoUsage
    Ids <- mcIds
    Texts <- mcTexts
    Objects <- mcObjects
    Events <- mcEvents
    MaxEvents = 3
INVARIANT StepBoundaryCompletes
CHECK_DEADLOCK FALSE
