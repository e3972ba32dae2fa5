SPECIFICATION Spec
CONSTANTS
    a = a
    b = b
    p = p
    q = q
    s = s
    r1 = r1
    r2 = r2
    x = x
    Symbols = {a, b, x}
    Mark <- mcMark
    NoName = NoName
    Names = {p, q, s}
    Keys <- mcKeys
    Settings <- mcSettings
    Requests = {r1}
    Replies <- mcReplies
INVARIANT KeysAreTwoAuthorities
