SPECIFICATION LiveSpec
CONSTANTS
    SEQ_SPACE = 16
    WINDOW_SIZE = 1
    MAX_PAYLOAD_SIZE = 1
    Byte <- MCBytes
    None = None
    Client = Client
    Server = Server
    Stream <- ShortStream
    MaxSend = 3
    InitialSeq <- MCInitialSeq
    Closers = {Client, Server}
    Duplicating = FALSE
    Lossy = {"FIN"}
    MaxLosses = 1
PROPERTY CloseReachesPeer
CHECK_DEADLOCK FALSE
