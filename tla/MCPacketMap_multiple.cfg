SPECIFICATION Spec
CONSTANTS
    NbBitsItem = 3
    WideShift = {1}
    Totals <- MCTotals
    PacketNumbers <- MCPacketNumbers
INVARIANT FullMeansAllReceived
