SPECIFICATION MCSpec
CONSTANTS
    N = 4
    Width = 9
    KeyText <- MCKeyText
    MaxVer = 11
    Coordinate = {1, 2, 11}
    MaxBufferSizeW = 2
    MaxFile = 5
    WThread = {t1, t2}
    WText <- MCText
    MaxMsg = 3
    BadSize = {1, 5}
    NumChunk = 3
    MaxChunkSize = 3
    MaxXorThread = 2
    XByte = {0, 1}
    IdMax = 3
    SendChunkSize = 3
    RecvChunkSize = 2
    IntBits = 5
    Transfer <- MCTransfer
INVARIANTS NoOverwrite Delivers HangsOnlyIfLost NamesSound ParitySound WholeOrCut TcpSafe
PROPERTIES FilesSound SentArrives
CHECK_DEADLOCK FALSE
