SPECIFICATION Spec
CONSTANTS
    NbBitsItem = 2
    WideShift = {0}
    Publications <- MCTwo
    ThrotData = 2
    MAX_BLOCK_NUMBER = 3
    MAX_PACKET_NUMBER = 4
    MAX_PACKET_SIZE = 8
    MaxSessions = 2
    WritesMayFail = FALSE
    RemovesMayFail = FALSE
    SIZE_MAX = 10
    CallocMayFail = FALSE
    MapOutgrowsBuffer = FALSE
    RepublishLive = FALSE
CHECK_DEADLOCK FALSE
INVARIANT OutputFaithful
