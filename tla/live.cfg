SPECIFICATION TimedSpec
CONSTANTS
    SEQ_SPACE = 16
    WINDOW_SIZE = 2
    MAX_PAYLOAD_SIZE = 1
    Byte <- MCBytes
    None = None
    Client = Client
    Server = Server
    Stream <- LopsidedStream
    MaxSend = 3
    InitialSeq <- EndsAtZero
    Closers = {Client, Server}
    Duplicating = FALSE
    Lossy = {"SYN", "SYNACK", "DATA"}
    MaxLosses = 2
    TIMEOUT = 2
INVARIANT
    DeliveryInvariant
PROPERTIES
    TimedHandshakeCompletes
    TimedEventuallyDelivered
    FallsSilent
    CloseReachesPeer
\* both ends may have closed
CHECK_DEADLOCK FALSE
