SPECIFICATION Spec
CONSTANTS
    x = x
    y = y
    hello = hello
    open = open
    close = close
    seven = seven
    empty = empty
    o1 = o1
    o2 = o2
    NoId = NoId
    NoUsage = NoUsage
    Malformed = Malformed
    EmptyObject = empty
    Ids = {x, y}
    Texts = {hello}
    Pieces = {open, close, seven}
    Objects = {empty, o1, o2}
    Documents <- mcDocuments
    Events <- mcEvents
    MaxEvents = 3
INVARIANT AbortFailsClosed
