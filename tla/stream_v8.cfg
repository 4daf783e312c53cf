SPECIFICATION Spec
CONSTANTS
    Streams = {s1, s2}
    Chars = {x, y}
    Filler = x
    Aads = {a1, a2}
    MaxFrame = 2
    MaxIdx = 2
CHECK_DEADLOCK FALSE
INVARIANTS
    ReleasedIsWhole
    GenuineAccepted
    SubNoncesUnique
    IncrementalAgrees
