SPECIFICATION SystemSpec
CONSTANTS
    NbBitsItem = 2
    WideShift = {0}
    Publications <- MCShortBlock
    ThrotData = 2
    MAX_BLOCK_NUMBER = 3
    MAX_PACKET_NUMBER = 4
    MAX_PACKET_SIZE = 8
    MaxSessions = 1
    WritesMayFail = FALSE
    RemovesMayFail = FALSE
    SIZE_MAX = 15
    CallocMayFail = FALSE
    MapOutgrowsBuffer = FALSE
    RepublishLive = FALSE
    BLOCK_SEND_REPEAT = 2
    SocketSize = 1
PROPERTY FileArrives
