SPECIFICATION Spec
CONSTANTS
    a = a
    b = b
    hello = hello
    f = f
    g = g
    empty = empty
    o1 = o1
    png = png
    Missing = Missing
    NoUrl = NoUrl
    Pieces = {hello}
    Ids = {a, b}
    Names = {f, g}
    Objects = {empty, o1}
    EmptyObject = empty
    MediaTypes = {png}
    Messages <- mcMessages
    Tools <- mcTools
    Limits <- mcLimits
    MaxInput = 4
    PiMessages <- mcPiMessages
    MaxPiInput = 4
    Turns <- mcTurns
INVARIANTS
    LosesOnlyPassedOver
    ResultsNameTheirCall
    SameConversation
PROPERTIES
    KeepsSchema
CHECK_DEADLOCK FALSE
