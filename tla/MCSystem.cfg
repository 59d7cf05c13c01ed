SPECIFICATION SystemSpec
CONSTANTS
    NbBitsItem = 3
    WideShift = {1}
    Publications <- MCSmall
    ThrotData = 2
    MAX_BLOCK_NUMBER = 3
    MAX_PACKET_NUMBER = 5
    MAX_PACKET_SIZE = 8
    MaxSessions = 2
    WritesMayFail = FALSE
    RemovesMayFail = FALSE
    SIZE_MAX = 15
    CallocMayFail = FALSE
    MapOutgrowsBuffer = FALSE
    RepublishLive = FALSE
    BLOCK_SEND_REPEAT = 2
    SocketSize = 2
INVARIANTS UnreceivableNeverArrives ResultIsInput
PROPERTIES ReceivableFileArrives ImplementsReceiver
