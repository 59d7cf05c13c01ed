------------------------------ MODULE DataPacket ------------------------------
(***************************************************************************)
(* What travels between the transmitter and the receivers, and what both   *)
(* sides compute from it: the packets runServer (server.c) cuts a data     *)
(* block into, and the checks readPacket (client.c) makes on each of them. *)
(*                                                                         *)
(* A publication is a prepared file as splitFile leaves it on disk and     *)
(* transmitFile loads it: the sequence of its data blocks, each a nonempty *)
(* sequence of bytes.  Block b of the code is element b + 1.               *)
(***************************************************************************)
EXTENDS Integers, Sequences

CONSTANTS
    Publications,     \* the prepared files that are ever transmitted
    ThrotData,        \* payload bytes per packet (8734 in the code)
    MAX_BLOCK_NUMBER, \* constantes.h: 65534
    MAX_PACKET_NUMBER, \* constantes.h: 65534
    MAX_PACKET_SIZE   \* constantes.h: 65535

SizeofPacketSize == 2   \* sizeof(tPacketSize)

ASSUME ThrotDataAssumption == ThrotData \in Nat \ {0}
ASSUME MaximaAssumption ==
    /\ MAX_BLOCK_NUMBER \in Nat /\ MAX_PACKET_NUMBER \in Nat
    /\ MAX_PACKET_SIZE \in Nat /\ MAX_PACKET_SIZE >= ThrotData + SizeofPacketSize
ASSUME PublicationsAssumption ==
    \A file \in Publications :
        /\ file \in Seq(Seq(Nat)) /\ file # <<>>
        /\ \A i \in 1 .. Len(file) : file[i] # <<>>

BlockNumbers == 0 .. MAX_BLOCK_NUMBER
INVALID_BLOCK_NUMBER == MAX_BLOCK_NUMBER + 1

(***************************************************************************)
(* crc32.c.  The checksum depends on all the bytes and on nothing else;    *)
(* collisions are left out, so two byte strings have the same checksum     *)
(* only if they are equal.                                                 *)
(***************************************************************************)
crc32c(bytes) == [crc |-> bytes]

\* The blocks splitFile cuts a file into: all of the same size, but for a shorter
\* last one when something is left.
Cut(file, size) ==
    [n \in 1 .. (Len(file) - 1) \div size + 1 |->
        SubSeq(file, (n - 1) * size + 1, IF n * size <= Len(file) THEN n * size ELSE Len(file))]

\* Mutant of NbThrotChunks: no packet for what is left after the whole chunks.
WholeChunksOnly(block) == Len(block) \div ThrotData

\* nbThrotChunks of runServer: one chunk more than the whole ones, even when
\* nothing is left for it.
NbThrotChunks(block) == Len(block) \div ThrotData + 1

\* The payload of packet j, blockSize (the bytes already sent) being j * ThrotData.
Chunk(block, j) ==
    LET sent == j * ThrotData
        size == IF sent + ThrotData <= Len(block) THEN ThrotData ELSE Len(block) - sent
    IN  SubSeq(block, sent + 1, sent + size)

\* tDataPacket.  _payloadSize is the length of the payload.
Packet(file, b, j) ==
    [checksum     |-> crc32c(file[b + 1]),
     blockNumber  |-> b,
     blockTotal   |-> Len(file),
     packetNumber |-> j,
     packetTotal  |-> NbThrotChunks(file[b + 1]),
     payload      |-> Chunk(file[b + 1], j)]

\* Mutant of BlockIsSent: the limit is not looked at.
EveryBlockIsSent(block) == TRUE

\* runServer skips a block it would have to cut into too many packets.
BlockIsSent(block) == NbThrotChunks(block) <= MAX_PACKET_NUMBER

PacketsOf(file) ==
    UNION {{Packet(file, b, j) : j \in 0 .. NbThrotChunks(file[b + 1]) - 1} :
           b \in {n \in 0 .. Len(file) - 1 : BlockIsSent(file[n + 1])}}

\* The coherency checks of readPacket, in the order of the code.
readPacket(packet) ==
    /\ packet.blockTotal <= MAX_BLOCK_NUMBER + 1
    /\ packet.blockNumber < packet.blockTotal
    /\ packet.packetTotal <= MAX_PACKET_NUMBER + 1
    /\ packet.packetNumber < packet.packetTotal
    /\ Len(packet.payload) # 0
    /\ Len(packet.payload) <= MAX_PACKET_SIZE - SizeofPacketSize

IsLastPacket(packet) == packet.packetNumber = packet.packetTotal - 1
=============================================================================
