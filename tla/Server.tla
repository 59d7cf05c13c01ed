-------------------------------- MODULE Server --------------------------------
(***************************************************************************)
(* runServer of server.c: the transmitter's endless loop over the blocks   *)
(* that transmitFile loaded.  Each block is cut into packets               *)
(* BLOCK_SEND_REPEAT times in a row before the loop moves on.  i, k, j and *)
(* blockSize are the variables of the code.                                *)
(***************************************************************************)
EXTENDS DataPacket

CONSTANTS BLOCK_SEND_REPEAT   \* constantes.h: 2

VARIABLES
    onAir,       \* pDataBlock: the payloads of the blocks that were loaded
    numbers,     \* pDataBlock: the block numbers in their headers
    i, k, j,     \* block, repetition of the block, packet
    blockSize,   \* the bytes of the block sent so far
    wire         \* the datagrams of the last step: one or none

Block == onAir[i + 1]
nbThrotChunks == NbThrotChunks(Block)

Init ==
    /\ onAir \in Publications
    /\ numbers = [n \in 1 .. Len(onAir) |-> n - 1]
    /\ i = 0 /\ k = 1 /\ j = 0 /\ blockSize = 0
    /\ wire = {}

payloadSize ==
    IF blockSize + ThrotData <= Len(Block) THEN ThrotData ELSE Len(Block) - blockSize

InBlock == BlockIsSent(Block) /\ j < nbThrotChunks

\* Both ways out of one turn of the packet loop count the payload as sent.
NextPacket ==
    /\ j' = j + 1
    /\ blockSize' = blockSize + payloadSize
    /\ UNCHANGED <<onAir, numbers, i, k>>

SendPacket ==
    /\ InBlock
    /\ wire' = {[checksum     |-> crc32c(Block),
                 blockNumber  |-> numbers[i + 1],
                 blockTotal   |-> Len(onAir),
                 packetNumber |-> j,
                 packetTotal  |-> nbThrotChunks,
                 payload      |-> SubSeq(Block, blockSize + 1, blockSize + payloadSize)]}
    /\ NextPacket

\* malloc or sendto failed: the packet is not sent this time.
MissPacket == InBlock /\ wire' = {} /\ NextPacket

\* Mutant of NextTurn: k is not set back.
NextTurnKeepsCount ==
    IF k = BLOCK_SEND_REPEAT
    THEN i' = (i + 1) % Len(onAir) /\ UNCHANGED k
    ELSE k' = k + 1 /\ UNCHANGED i

\* (k == BLOCK_SEND_REPEAT) ? ++i, k = 1 : ++k, and for(;;) around it.
NextTurn ==
    IF k = BLOCK_SEND_REPEAT
    THEN i' = (i + 1) % Len(onAir) /\ k' = 1
    ELSE k' = k + 1 /\ UNCHANGED i

\* Mutant of EndBlock: blockSize is not reset for the next block.
EndBlockKeepsSize ==
    /\ BlockIsSent(Block) /\ j = nbThrotChunks
    /\ j' = 0 /\ wire' = {}
    /\ NextTurn
    /\ UNCHANGED <<onAir, numbers, blockSize>>

EndBlock ==
    /\ BlockIsSent(Block) /\ j = nbThrotChunks
    /\ j' = 0 /\ blockSize' = 0 /\ wire' = {}
    /\ NextTurn
    /\ UNCHANGED <<onAir, numbers>>

\* A block of too many packets is never sent.
SkipBlock ==
    /\ ~ BlockIsSent(Block)
    /\ wire' = {}
    /\ NextTurn
    /\ UNCHANGED <<onAir, numbers, j, blockSize>>

Next == SendPacket \/ MissPacket \/ EndBlock \/ SkipBlock
=============================================================================
