SPECIFICATION Spec
CONSTANTS
    SEQ_SPACE = 16
    WINDOW_SIZE = 2
    MAX_PAYLOAD_SIZE = 2
    Byte <- MCBytes
    None = None
    MAX_BYTE = 9
    Char <- MCChars
    p1 = p1
    p2 = p2
    Peer = {p1}
    Sent <- OneEager
    Text <- MCText
    Failing = {p1}
    MaxConns = 1
    MaxInput = 1
INVARIANT RefusalIsSent
\* every connection may be over
CHECK_DEADLOCK FALSE
