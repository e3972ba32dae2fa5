SPECIFICATION PipelineSpec
CONSTANTS
    t = t
    i = i
    o = o
    NoDoc = NoDoc
    NoUsage = NoUsage
    Ids = {i}
    Texts = {t}
    Objects = {o}
    Docs <- mcDocs
    NullEvent <- mcNull
    Events <- mcEvents
    Refused <- mcRefused
    Lines <- mcLines
    MaxLines = 4
    MaxEvents = 4
INVARIANTS
    TypeOK
    DeliversFrames
    AnswerIsOfTheBody
