SPECIFICATION LiveSpec
CONSTANTS
    SEQ_SPACE = 16
    WINDOW_SIZE = 2
    MAX_PAYLOAD_SIZE = 2
    Byte <- MCBytes
    None = None
    MAX_BYTE = 9
    Char <- MCChars
    p1 = p1
    p2 = p2
    Peer = {p1, p2}
    Sent <- OneTalksOneRefused
    Text <- MCText
    Failing = {p2}
    MaxConns = 1
    MaxInput = 1
INVARIANT
    FilesHoldStrings
PROPERTIES
    SessionsEnd
    RefusedConnectionsEnd
\* every connection may be over
CHECK_DEADLOCK FALSE
