SPECIFICATION SystemLiveSpec
CONSTANTS
    SEQ_SPACE = 16
    WINDOW_SIZE = 5
    MAX_PAYLOAD_SIZE = 4
    Byte <- MCBytes
    None = None
    MAX_BYTE = 9
    Char <- MCChars
    p1 = p1
    Peer = {p1}
    Sent <- FromClient
    Text <- MCText
    Failing = {p1}
    MaxConns = 4
    MaxInput = 1
    Story <- MCStory
    Runs = 2
    MaxRefusals = 1
INVARIANTS
    ClientInvariant
    ClientsAsAssumed
    EachStringOnce
    FilesHoldStories
    OnlyRefusedDie
PROPERTIES
    ClientsFinish
    EstablishedEnd
\* every client may have run
CHECK_DEADLOCK FALSE
