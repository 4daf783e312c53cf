SPECIFICATION Spec
CONSTANTS
    MAX_NOISE_RUN = 1
    V7_NOISE_RUN_GUARD = 1
    PAD_MIN_EXP = 0
    PAD_MAX_EXP = 2
    ByteBase = 2
    MAX_CODEPOINT = 7
    Surrogates = {6}
    Primes <- MCPrimes
    Messages <- MCMessages
    Seeds = {0, 1}
    Profiles <- MCProfiles
CHECK_DEADLOCK FALSE
INVARIANTS
    RoundTrip
    BudgetSuffices
    CutNeverShortens
