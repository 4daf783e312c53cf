SPECIFICATION Spec
CONSTANTS
    Protocols = {modbus}
    Devices = {d1}
    Wildcard = Wildcard
    Pdus = {p1}
    Keys = {k1, k2, k3, k4}
    NoKey = NoKey
    NoFrame = NoFrame
    PskFile <- MCPskFile
    IngressTasks = {i1}
    EgressTasks = {e1}
    MaxSeq = 2
    MaxRestarts = 1
    Conns = {c1, c2}
    NoConn = NoConn
    Rekeys = TRUE
    MaxFaults = 1
SYMMETRY Symmetry
INVARIANTS
    SettledFramesOpen
    AcceptedOnceEver
PROPERTY TunnelSpec
