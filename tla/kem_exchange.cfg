SPECIFICATION FairSpec
CONSTANTS
    Keys = {k1, k2, k3, k4, k5}
    NoKey = NoKey
    Conns = {c1, c2, c3}
    NoConn = NoConn
    Rekeys = TRUE
    MaxFaults = 2
INVARIANT AgreementAfterAck
PROPERTY KeysAgreeAgain
