SPECIFICATION WireSpec
CONSTANTS
    Senders = {"bare", "forward"}
    Frames <- MCFrames
    Seqs = {1, 300}
    Blobs <- MCForwardBlobs
    MaxFrames = 2
INVARIANT ForwardedIsRead
