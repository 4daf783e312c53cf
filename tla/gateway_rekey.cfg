SPECIFICATION Spec
CONSTANTS
    Protocols = {modbus}
    Devices = {d1}
    Wildcard = Wildcard
    Pdus = {p1}
    Keys = {k1, k2, k3}
    NoKey = NoKey
    NoFrame = NoFrame
    PskFile <- MCPskFile
    IngressTasks = {i1}
    EgressTasks = {e1}
    MaxSeq = 2
    MaxRestarts = 0
    Conns = {c1, c2}
    NoConn = NoConn
    Rekeys = TRUE
    MaxFaults = 0
SYMMETRY Symmetry
PROPERTY InFlightFramesContinue
