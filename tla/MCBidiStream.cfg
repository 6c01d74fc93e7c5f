\* Two frames and two messages each way; a stream ends.
SPECIFICATION FairSpec
CONSTANTS
    MaxFrames = 2
    MaxMsgs = 2
    Window = 1
    PeerWindow = 1
INVARIANTS
    EncodingMirrored
    PumpsUnblockEachOther
    NilMeansNormalEnd
PROPERTIES
    PeerLeavingEndsStream
    ServerEndClosesWebSocket
CHECK_DEADLOCK FALSE
