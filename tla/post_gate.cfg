SPECIFICATION FairSpec
CONSTANTS
    Threads = {t1, t2}
    Nonces = {n1, n2}
    MaxCalls = 2
    NoThread = NoThread
    NoNonce = NoNonce
INVARIANTS
    TypeOK
    LateCallRefused
    WaiterSeesOutcome
    RunningIsOwned
    StuckGeneratorIsFatal
PROPERTIES
    FailedIsSticky
    EveryCallReturns
