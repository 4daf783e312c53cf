SPECIFICATION Spec
CONSTANTS
    d1 = d1
    d2 = d2
    k1 = k1
    Protocols = {modbus}
    Devices = {d1, d2}
    Wildcard = Wildcard
    Pdus = {p1}
    Keys = {k1, k2}
    NoKey = NoKey
    NoFrame = NoFrame
    PskFile <- MCPskFile
    IngressTasks = {i1, i2}
    EgressTasks = {e1, e2}
    MaxSeq = 2
    MaxRestarts = 1
SYMMETRY TaskSymmetry
CONSTRAINT FewFrames
INVARIANTS
    TypeOK
    WindowIsAuthentic
    AcceptedIsAuthentic
    SequenceNumbersUnique
    AcceptedInOrder
PROPERTY ChannelSpec
