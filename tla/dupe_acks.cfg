SPECIFICATION Spec
CONSTANTS
    SEQ_SPACE = 16
    WINDOW_SIZE = 3
    MAX_PAYLOAD_SIZE = 2
    Byte <- MCBytes
    None = None
    Client = Client
    Server = Server
    Stream <- LongStream
    MaxSend = 3
    InitialSeq <- MCInitialSeq
    Closers = {}
    Duplicating = FALSE
    Lossy = {}
    MaxLosses = 0
PROPERTY OnlyDuplicatesCounted
