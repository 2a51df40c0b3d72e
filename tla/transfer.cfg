SPECIFICATION Spec
CONSTANTS
    SEQ_SPACE = 16
    WINDOW_SIZE = 3
    MAX_PAYLOAD_SIZE = 2
    Byte <- MCBytes
    None = None
    Client = Client
    Server = Server
    Stream <- LongStream
    MaxSend = 3
    InitialSeq <- MCInitialSeq
    Closers = {Client}
    Duplicating = TRUE
    Lossy = {"FIN"}
    MaxLosses = 1
INVARIANTS
    TypeOK
    PrefixDelivered
    NoPanic
    NothingForgotten
    UnackedCoversWindow
    ReceiveWindowInStep
    HandshakeAgrees
    CutInvariant
PROPERTIES
    WindowsMoveForward
    ImplementsByteStream
\* both ends may have closed
CHECK_DEADLOCK FALSE
