SPECIFICATION Spec
CONSTANTS
    MIN_KEY_PRIME = 5
    MAX_KEY_PRIME = 13
    MAX_SERIALISABLE_KEY_PRIME = 15
    MAX_KEY_ELEMENTS = 4
    KeyTuples <- MCKeyTuples
    Sks = {"s1", "s2"}
    Aads <- MCAads
    Texts <- MCTexts
    MAX_PLAINTEXT_CODEPOINTS = 3
    MaxAadV7 = 2
    HmacBlock = 4
    Blocks = {2, 4}
    Frame = 2
INVARIANTS
    RoundTrips
    NeverPanics
    VerifiedIsSealed
    OpensToSealed
    NoncesSeparate
CHECK_DEADLOCK FALSE
