SPECIFICATION WireSpec
CONSTANTS
    Senders = {"bare", "forward"}
    Frames <- MCFrames
    Seqs = {1}
    Blobs <- MCBlobs
    MaxFrames = 2
INVARIANTS
    HandedAsSent
    AlignedReadsIntact
    Dnp3SealsWholeFrames
    SegmentationNeverPanics
    ReassemblyInverts
