SPECIFICATION LiveSpec
CONSTANTS
    SEQ_SPACE = 16
    WINDOW_SIZE = 1
    MAX_PAYLOAD_SIZE = 1
    Byte <- MCBytes
    None = None
    Client = Client
    Server = Server
    Stream <- ShortStream
    MaxSend = 3
    InitialSeq <- MCInitialSeq
    Closers = {}
    Duplicating = FALSE
    Lossy = {"ACK"}
    MaxLosses = 1
PROPERTY EventuallyDelivered
