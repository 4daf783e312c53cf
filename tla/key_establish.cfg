SPECIFICATION Spec
CONSTANTS
    MIN_KEY_PRIME = 3469
    MAX_KEY_PRIME = 3491
    MAX_SERIALISABLE_KEY_PRIME = 4095
    MAX_KEY_ELEMENTS = 2
    Probes <- MCProbes
    Counts = {0, 1, 2, 3}
    Ranges <- MCRanges
    KEYGEN_DRAWS_PER_PRIME = 3
    NAPQES_KEY_COUNT = 2
    MIN_PRIME = 3469
    MAX_PRIME = 3492
    Digests = {0, 12, 22, 45}
    MaxDraws = 3
INVARIANTS
    PrimalityExact
    KeysGood
    UntouchedAgree
    AgreementBindsExchange
PROPERTY GenerationEnds
CHECK_DEADLOCK FALSE
