------------------------------- MODULE Receiver -------------------------------
(***************************************************************************)
(* receivefile.c with the file functions of parsefile.c and splitfile.c it *)
(* calls: one receiver process and its output directory.                   *)
(*                                                                         *)
(* The process is killed and started again at any point (Crash, Start);    *)
(* what it has on disk survives, its memory does not.  Each action below   *)
(* has at most one effect on the disk, so every state the directory can    *)
(* be left in is a state of this specification.  A kill during a write     *)
(* leaves the file Torn: fopen "wb+" has emptied it and fclose has not     *)
(* flushed it yet.                                                         *)
(*                                                                         *)
(* The network loses, duplicates and reorders: any packet of the           *)
(* publication on the air may be the next one read, any number of times.   *)
(***************************************************************************)
EXTENDS BlockPacketMap, Files, FiniteSets

CONSTANTS
    MaxSessions,      \* bound on the runs of the program on one directory
    RepublishLive,    \* whether the publication may change during a session
    CallocMayFail,    \* whether the payload and the map of a block may be refused
    MapOutgrowsBuffer, \* whether a map file is longer than the buffer of its stream,
                      \* so that its header may be on disk without its words
    SIZE_MAX          \* the largest tBlockSize, which is a size_t

ASSUME ReceiverAssumption ==
    /\ MaxSessions \in Nat
    /\ {RepublishLive, CallocMayFail, MapOutgrowsBuffer} \subseteq BOOLEAN
    /\ SIZE_MAX \in Nat /\ (MAX_PACKET_NUMBER + 1) * ThrotData <= SIZE_MAX

VARIABLES
    onAir,          \* the publication the transmitter is sending
    sessions,       \* how often the program has been started
    pc,             \* where the process is, "off" when it does not run
    packet,         \* dataPacket, while a packet is being handled
    indexTable,     \* nbItems = 0 stands for _pItems == NULL
    dataBlock,      \* payload = <<>> stands for _pPayload == NULL
    blockPacketMap,
    nbBlockRead,
    maxPacketSize,
    cursor,         \* the loop counter of resetOuputDir
    stream,         \* the blocks written to the output stream, not yet flushed
    blockFile, mapFile, indexFile,  \* the output directory
    output          \* the file the program is to produce

environment == <<onAir, sessions>>
memory == <<packet, indexTable, dataBlock, blockPacketMap, nbBlockRead,
            maxPacketSize, cursor, stream>>
disk == <<blockFile, mapFile, indexFile, output>>
vars == <<environment, pc, memory, disk>>

-----------------------------------------------------------------------------
NoPacket == [checksum |-> crc32c(<<>>), blockNumber |-> 0, blockTotal |-> 0,
             packetNumber |-> 0, packetTotal |-> 0, payload |-> <<>>]
NoIndex == [nbItems |-> 0, items |-> [i \in {} |-> {}]]
NoBlock == [blockNumber |-> 0, checksum |-> crc32c(<<>>), payloadSize |-> 0,
            payload |-> <<>>]

Loaded == dataBlock.payload # <<>>

InvalidItem == [number |-> INVALID_BLOCK_NUMBER, offset |-> 0]
Completed == {b \in DOMAIN indexTable.items :
                indexTable.items[b].number # INVALID_BLOCK_NUMBER}

\* Both loops of the index table run up to _nbItems.
allocateIndexTable(blockTotal) ==
    [nbItems |-> blockTotal, items |-> [i \in 0 .. blockTotal - 1 |-> InvalidItem]]

InitMemory ==
    /\ packet = NoPacket /\ indexTable = NoIndex /\ dataBlock = NoBlock
    /\ blockPacketMap = ClosedMap /\ nbBlockRead = 0 /\ maxPacketSize = 0
    /\ cursor = 0 /\ stream = <<>>

ClearMemory ==
    /\ packet' = NoPacket /\ indexTable' = NoIndex /\ dataBlock' = NoBlock
    /\ blockPacketMap' = ClosedMap /\ nbBlockRead' = 0 /\ maxPacketSize' = 0
    /\ cursor' = 0 /\ stream' = <<>>

Init ==
    /\ onAir \in Publications
    /\ sessions = 0
    /\ pc = "off"
    /\ InitMemory
    /\ blockFile = [b \in BlockNumbers |-> Absent]
    /\ mapFile = [b \in BlockNumbers |-> Absent]
    /\ indexFile = Absent
    /\ output = Absent

-----------------------------------------------------------------------------
\* The environment: the operator starts the program, kills it, and prepares
\* and transmits another file.
Start ==
    /\ pc = "off" /\ sessions < MaxSessions
    /\ sessions' = sessions + 1
    /\ pc' = "reset"
    /\ UNCHANGED <<onAir, memory, disk>>

Republish ==
    /\ pc = "off" \/ RepublishLive
    /\ \E file \in Publications \ {onAir} : onAir' = file
    /\ UNCHANGED <<sessions, pc, memory, disk>>

\* A kill may find a file open for writing.
Crash ==
    /\ pc # "off"
    /\ pc' = "off"
    /\ ClearMemory
    /\ blockFile' \in IF pc \in {"save", "write"}
                      THEN {[blockFile EXCEPT ![dataBlock.blockNumber] = f] :
                            f \in Tear(blockFile[dataBlock.blockNumber])}
                      ELSE {blockFile}
    /\ mapFile' \in IF pc = "savemap"
                    THEN {[mapFile EXCEPT ![dataBlock.blockNumber] = f] :
                          f \in Tear(mapFile[dataBlock.blockNumber])}
                    ELSE {mapFile}
    /\ indexFile' \in IF pc = "index" THEN Tear(indexFile) ELSE {indexFile}
    /\ output' \in IF pc = "generate" THEN Tear(output)
                   ELSE IF stream # <<>> THEN {output, Whole(stream)} ELSE {output}
    /\ UNCHANGED environment

-----------------------------------------------------------------------------
(***************************************************************************)
(* resetOuputDir, called on entry and again at the end: it removes the     *)
(* block files the index file lists, one by one, then the index file.  It  *)
(* exits when one of them cannot be removed, and does nothing without a    *)
(* readable index file.                                                    *)
(***************************************************************************)
AfterReset == IF pc = "reset" THEN "receive" ELSE "exit"

\* exit(EXIT_FAILURE); at the end this still flushes the output.
FailReset == pc' = (IF pc = "reset" THEN "off" ELSE "exit") /\ cursor' = 0

ResetNothing ==
    /\ pc \in {"reset", "erase"}
    /\ ~ IsWhole(indexFile)
    /\ pc' = AfterReset
    /\ UNCHANGED <<environment, memory, disk>>

ResetRemoveBlock ==
    /\ pc \in {"reset", "erase"}
    /\ IsWhole(indexFile) /\ cursor < indexFile.data.nbItems
    /\ LET b == indexFile.data.items[cursor].number
       IN  \/ /\ Exists(blockFile[b])
              /\ blockFile' = [blockFile EXCEPT ![b] = Absent]
              /\ cursor' = cursor + 1
              /\ UNCHANGED pc
           \/ /\ ~ Exists(blockFile[b]) \/ RemovesMayFail
              /\ FailReset
              /\ UNCHANGED blockFile
    /\ UNCHANGED <<environment, packet, indexTable, dataBlock, blockPacketMap,
                   nbBlockRead, maxPacketSize, stream, mapFile, indexFile, output>>

ResetRemoveIndex ==
    /\ pc \in {"reset", "erase"}
    /\ IsWhole(indexFile) /\ cursor = indexFile.data.nbItems
    /\ \/ indexFile' = Absent /\ cursor' = 0 /\ pc' = AfterReset
       \/ RemovesMayFail /\ FailReset /\ UNCHANGED indexFile
    /\ UNCHANGED <<environment, packet, indexTable, dataBlock, blockPacketMap,
                   nbBlockRead, maxPacketSize, stream, blockFile, mapFile, output>>

-----------------------------------------------------------------------------
\* DISCARD_BLOCK_WITH_NEXT_ONE: the packet belongs to the block after the one
\* being received, the first block following the last.
IsNextBlock(p) ==
    \/ p.blockNumber = dataBlock.blockNumber + 1
    \/ /\ dataBlock.blockNumber + 1 = indexTable.nbItems
       /\ p.blockNumber = 0
       /\ indexTable.nbItems # 1

\* The first packet allocates the index table, the others must agree with it.
FitsIndexTable(p) ==
    IF indexTable.nbItems = 0 THEN p.blockTotal <= MAX_BLOCK_NUMBER
    ELSE p.blockTotal = indexTable.nbItems

OfCurrentBlock(p) == ~ Loaded \/ p.blockNumber = dataBlock.blockNumber

(***************************************************************************)
(* A packet read from the socket.  A packet that fails the checks, does    *)
(* not agree with the index table, or belongs to a block that is neither   *)
(* the current nor the next one is dropped.  The index table is allocated  *)
(* before the packet can be found to be of any use.                        *)
(***************************************************************************)
Accepts(p) == readPacket(p) /\ FitsIndexTable(p) /\ (OfCurrentBlock(p) \/ IsNextBlock(p))

ReceivePacket(p) ==
    /\ pc = "receive"
    /\ Accepts(p)
    /\ indexTable' = IF indexTable.nbItems = 0
                     THEN allocateIndexTable(p.blockTotal) ELSE indexTable
    /\ pc' = IF OfCurrentBlock(p) THEN "accept" ELSE "save"
    /\ packet' = p
    /\ UNCHANGED <<environment, dataBlock, blockPacketMap, nbBlockRead,
                   maxPacketSize, cursor, stream, disk>>

\* Mutant of ReleaseBlock: the map is left open.
ReleasePayloadOnly == dataBlock' = NoBlock /\ UNCHANGED blockPacketMap

\* closeMap, free and _pPayload = NULL.  What is left in the header of
\* dataBlock is not read again before it is written.
ReleaseBlock == dataBlock' = NoBlock /\ blockPacketMap' = closeMap(blockPacketMap)

\* A size beyond the payload: whatever reads that many bytes is undefined.
OutgrowsPayload == dataBlock.payloadSize > Len(dataBlock.payload)

\* Write the current block as it is, complete or not...
SaveBlock ==
    /\ pc = "save"
    /\ \/ /\ ~ OutgrowsPayload
          /\ blockFile' = [blockFile EXCEPT ![dataBlock.blockNumber] = BlockWritten(dataBlock)]
          /\ pc' = "savemap"
          /\ UNCHANGED <<dataBlock, blockPacketMap>>
       \/ /\ OutgrowsPayload
          /\ pc' = "undefined"
          /\ UNCHANGED <<dataBlock, blockPacketMap, blockFile>>
       \/ /\ \E file \in RefusedWrite(blockFile[dataBlock.blockNumber]) :
                blockFile' = [blockFile EXCEPT ![dataBlock.blockNumber] = file]
          /\ pc' = "restore"
          /\ ReleaseBlock
    /\ UNCHANGED <<environment, packet, indexTable, nbBlockRead, maxPacketSize,
                   cursor, stream, mapFile, indexFile, output>>

\* ... then its packet map, and forget both.
SaveMap ==
    /\ pc = "savemap"
    /\ \E file \in WriteOutcomes(mapFile[dataBlock.blockNumber], blockPacketMap) :
          mapFile' = [mapFile EXCEPT ![dataBlock.blockNumber] = file]
    /\ ReleaseBlock
    /\ pc' = "restore"
    /\ UNCHANGED <<environment, packet, indexTable, nbBlockRead, maxPacketSize,
                   cursor, stream, blockFile, indexFile, output>>

(***************************************************************************)
(* restoreBlockFromMapFile: the map is read and removed, then the block is *)
(* read (its checksum is not verified).  A map file that cannot be removed *)
(* is reported and stays; the block is read all the same.  A torn block    *)
(* file that still has its header makes readBlockFile free the payload and *)
(* leave the pointer to it in dataBlock: what the program does from there  *)
(* is undefined.  A torn map file that has its header makes readMapFile    *)
(* fail with the header filled in and words allocated that it has not      *)
(* read.                                                                   *)
(***************************************************************************)
Restorable(b) == IsWhole(mapFile[b]) /\ IsWhole(blockFile[b])

\* The maps readMapFile may leave when it finds the map file of block b short.
UnreadMaps(b) ==
    LET totals == {NbThrotChunks(file[b + 1]) : file \in {f \in Publications : b < Len(f)}}
    IN  UNION {{[packetTotal |-> t, nbItems |-> NbItems(t), items |-> words] :
                words \in [0 .. NbItems(t) - 1 -> Word]} : t \in totals}

\* The map that is left when block b could not be restored.
UnrestoredMaps(b) ==
    IF IsWhole(mapFile[b]) THEN {ClosedMap}
    ELSE {blockPacketMap} \cup
         (IF MapOutgrowsBuffer /\ mapFile[b] = Torn THEN UnreadMaps(b) ELSE {})

\* Mutant of RemoveMapFile: the map file is read and left where it is.
KeepMapFile(b) == UNCHANGED mapFile

RemoveMapFile(b) ==
    \/ mapFile' = IF IsWhole(mapFile[b]) THEN [mapFile EXCEPT ![b] = Absent] ELSE mapFile
    \/ RemovesMayFail /\ UNCHANGED mapFile

RestoreBlock(b, found, missing) ==
    /\ RemoveMapFile(b)
    /\ \/ /\ Restorable(b)
          /\ dataBlock' = blockFile[b].data
          /\ blockPacketMap' = mapFile[b].data
          /\ pc' = found
       \/ /\ IsWhole(mapFile[b]) /\ blockFile[b] = Torn
          /\ pc' = "undefined"
          /\ UNCHANGED <<dataBlock, blockPacketMap>>
       \/ /\ ~ Restorable(b)
          /\ missing

\* Switch to the block of the packet that made us discard the previous one.
RestoreNext ==
    /\ pc = "restore"
    /\ RestoreBlock(packet.blockNumber, "accept",
                    /\ blockPacketMap' \in UnrestoredMaps(packet.blockNumber)
                    /\ pc' = "accept"
                    /\ UNCHANGED dataBlock)
    /\ UNCHANGED <<environment, packet, indexTable, nbBlockRead, maxPacketSize,
                   cursor, stream, blockFile, indexFile, output>>

-----------------------------------------------------------------------------
\* Mutants of the next two: the test is left out.
NeverCompleted == FALSE
NeverReceived == FALSE

AlreadyCompleted == packet.blockNumber \in Completed
AlreadyReceived == getMap(blockPacketMap, packet.packetNumber)
Consistent ==
    /\ blockPacketMap.packetTotal = packet.packetTotal
    /\ dataBlock.checksum = packet.checksum
    /\ dataBlock.blockNumber = packet.blockNumber

FreePacket == packet' = NoPacket /\ pc' = "receive"

\* Every goto free_packet between the switch of blocks and the payload.
IgnorePacket ==
    /\ pc = "accept"
    /\ \/ AlreadyCompleted
       \/ AlreadyReceived
       \/ ~ Loaded /\ IsLastPacket(packet)
       \/ Loaded /\ ~ Consistent
    /\ FreePacket
    /\ UNCHANGED <<environment, indexTable, dataBlock, blockPacketMap, nbBlockRead,
                   maxPacketSize, cursor, stream, disk>>

\* calloc of packetTotal packets of the size of this one.
NewBlock(p) ==
    LET size == p.packetTotal * Len(p.payload)
    IN  [blockNumber |-> p.blockNumber, checksum |-> p.checksum,
         payloadSize |-> size, payload |-> [i \in 1 .. size |-> 0]]

(***************************************************************************)
(* The first packet of a block: take up the block where an earlier switch  *)
(* or session left it, or begin it.  The last packet cannot begin a block. *)
(* Without memory for the payload the packet is dropped; whether there was *)
(* any for the map is not looked at.                                       *)
(***************************************************************************)
NewMaps(packetTotal) ==
    {initMap(packetTotal)} \cup (IF CallocMayFail THEN {ClosedMap} ELSE {})

StartBlock(p) ==
    \/ /\ dataBlock' = NewBlock(p)
       /\ blockPacketMap' \in NewMaps(p.packetTotal)
       /\ pc' = "store"
    \/ /\ CallocMayFail
       /\ blockPacketMap' \in UnrestoredMaps(p.blockNumber)
       /\ pc' = "receive"
       /\ UNCHANGED dataBlock

BeginBlock ==
    /\ pc = "accept"
    /\ ~ AlreadyCompleted /\ ~ AlreadyReceived
    /\ ~ Loaded /\ ~ IsLastPacket(packet)
    /\ RestoreBlock(packet.blockNumber, "store", StartBlock(packet))
    /\ maxPacketSize' = IF pc' = "store" THEN Len(packet.payload) ELSE maxPacketSize
    /\ packet' = IF pc' = "receive" THEN NoPacket ELSE packet
    /\ UNCHANGED <<environment, indexTable, nbBlockRead, cursor, stream,
                   blockFile, indexFile, output>>

ContinueBlock ==
    /\ pc = "accept"
    /\ ~ AlreadyCompleted /\ ~ AlreadyReceived
    /\ Loaded /\ Consistent
    /\ pc' = "store"
    /\ UNCHANGED <<environment, memory, disk>>

\* memcpy(buffer + offset, bytes, length of bytes).
memcpy(buffer, offset, bytes) ==
    [i \in 1 .. Len(buffer) |->
        IF offset < i /\ i <= offset + Len(bytes) THEN bytes[i - offset] ELSE buffer[i]]

\* Mutant of AdjustedSize: the last packet is taken for a full one.
UnadjustedSize == dataBlock.payloadSize

\* The payload size once the last packet, which is missing some bytes to a full
\* one, has told how long the block is.  Below zero it wraps.
AdjustedSize ==
    LET missing == IF IsLastPacket(packet) THEN maxPacketSize - Len(packet.payload) ELSE 0
    IN  IF missing <= dataBlock.payloadSize
        THEN dataBlock.payloadSize - missing
        ELSE dataBlock.payloadSize + SIZE_MAX + 1 - missing

(***************************************************************************)
(* Put the packet in its place and mark it.  A last packet longer than the *)
(* others is dropped; so is a packet that does not fit, but only after the *)
(* last one has adjusted the payload size.  Nothing but that size is asked *)
(* before the memcpy, so that one that has wrapped lets it go past the     *)
(* payload.                                                                *)
(***************************************************************************)
StorePacket ==
    /\ pc = "store"
    /\ LET offset == maxPacketSize * packet.packetNumber
           tooLong == IsLastPacket(packet) /\ Len(packet.payload) > maxPacketSize
           end == offset + Len(packet.payload)
           fits == end <= AdjustedSize
           map == setMap(blockPacketMap, packet.packetNumber)
       IN  \/ /\ tooLong
              /\ FreePacket
              /\ UNCHANGED <<dataBlock, blockPacketMap>>
           \/ /\ ~ tooLong /\ ~ fits
              /\ dataBlock' = [dataBlock EXCEPT !.payloadSize = AdjustedSize]
              /\ FreePacket
              /\ UNCHANGED blockPacketMap
           \/ /\ ~ tooLong /\ fits /\ end > Len(dataBlock.payload)
              /\ pc' = "undefined"
              /\ UNCHANGED <<packet, dataBlock, blockPacketMap>>
           \/ /\ ~ tooLong /\ fits /\ end <= Len(dataBlock.payload)
              /\ dataBlock' = [dataBlock EXCEPT
                    !.payloadSize = AdjustedSize,
                    !.payload = memcpy(@, offset, packet.payload)]
              /\ blockPacketMap' = map
              /\ \E wide \in WideShift :
                    IF isMapFull(map, wide)
                    THEN pc' = "check" /\ UNCHANGED packet
                    ELSE FreePacket
    /\ UNCHANGED <<environment, indexTable, nbBlockRead, maxPacketSize, cursor,
                   stream, disk>>

-----------------------------------------------------------------------------
\* Mutant of ChecksumMatches: every block is taken for a good one.
NoChecksum == TRUE

\* The map is full: verify the checksum of the block.
ChecksumMatches ==
    crc32c(SubSeq(dataBlock.payload, 1, dataBlock.payloadSize)) = dataBlock.checksum

CheckPastPayload ==
    /\ pc = "check" /\ OutgrowsPayload
    /\ pc' = "undefined"
    /\ UNCHANGED <<environment, memory, disk>>

DropCorruptBlock ==
    /\ pc = "check" /\ ~ OutgrowsPayload /\ ~ ChecksumMatches
    /\ ReleaseBlock
    /\ FreePacket
    /\ UNCHANGED <<environment, indexTable, nbBlockRead, maxPacketSize, cursor,
                   stream, disk>>

KeepBlock ==
    /\ pc = "check" /\ ~ OutgrowsPayload /\ ChecksumMatches
    /\ pc' = "write"
    /\ UNCHANGED <<environment, memory, disk>>

\* Write the block file (whether that worked is not looked at), mark the block
\* in the index table and count it; the last one ends the loop.
WriteBlock ==
    /\ pc = "write"
    /\ \E file \in WriteOutcomes(blockFile[dataBlock.blockNumber], BlockImage(dataBlock)) :
          blockFile' = [blockFile EXCEPT ![dataBlock.blockNumber] = file]
    /\ indexTable' = [indexTable EXCEPT !.items[packet.blockNumber] =
                        [number |-> dataBlock.blockNumber,
                         offset |-> dataBlock.payloadSize]]
    /\ ReleaseBlock
    /\ nbBlockRead' = nbBlockRead + 1
    /\ packet' = NoPacket
    /\ pc' = IF nbBlockRead + 1 = indexTable.nbItems THEN "index" ELSE "receive"
    /\ UNCHANGED <<environment, maxPacketSize, cursor, stream, mapFile, indexFile, output>>

-----------------------------------------------------------------------------
\* Mutant of Offsets: each offset counts the block itself as well.
EndOffsets(items) ==
    LET offsetOf[b \in DOMAIN items] ==
            items[b].offset + (IF b = 0 THEN 0 ELSE offsetOf[b - 1])
    IN  [b \in DOMAIN items |-> [items[b] EXCEPT !.offset = offsetOf[b]]]

\* Turn the sizes in the index table into offsets, and write it.
Offsets(items) ==
    LET offsetOf[b \in DOMAIN items] ==
            IF b = 0 THEN 0 ELSE offsetOf[b - 1] + items[b - 1].offset
    IN  [b \in DOMAIN items |-> [items[b] EXCEPT !.offset = offsetOf[b]]]

CreateIndex ==
    /\ pc = "index"
    /\ LET table == [indexTable EXCEPT !.items = Offsets(@)]
       IN  indexFile' \in WriteOutcomes(indexFile, table)
    /\ indexTable' = NoIndex
    /\ pc' = "generate"
    /\ UNCHANGED <<environment, packet, dataBlock, blockPacketMap, nbBlockRead,
                   maxPacketSize, cursor, stream, blockFile, mapFile, output>>

\* Mutant of DataFile: the loop stops one block early.
DataFileButLast(table) ==
    [i \in 1 .. table.nbItems - 1 |-> blockFile[table.items[i - 1].number].data.payload]

\* What generateDataFile appends to the stream, block by block.
DataFile(table) ==
    [i \in 1 .. table.nbItems |-> blockFile[table.items[i - 1].number].data.payload]

(***************************************************************************)
(* generateDataFile: open the output file and write every block into the   *)
(* stream.  The stream is never closed, so its tail reaches the file only  *)
(* when the program exits.  The result of readBlockFile is ignored: with   *)
(* an unreadable block the program writes from freed memory, or nothing at *)
(* all when it is the first one and has not even a header.                 *)
(***************************************************************************)
GenerateDataFile ==
    /\ pc = "generate"
    /\ \/ /\ ~ IsWhole(indexFile) \/ WritesMayFail
          /\ pc' = "erase"
          /\ UNCHANGED <<stream, output>>
       \/ /\ IsWhole(indexFile)
          /\ LET table == indexFile.data
                 Read(i) == blockFile[table.items[i].number]
                 readable == \A i \in DOMAIN table.items : ReadsVerified(Read(i))
             IN  \/ /\ readable
                    /\ stream' = DataFile(table)
                    /\ pc' = "erase"
                 \/ /\ ~ IsWhole(Read(0)) \/ (WritesMayFail /\ ReadsVerified(Read(0)))
                    /\ pc' = "erase"
                    /\ UNCHANGED stream
                 \/ /\ ~ readable
                    /\ pc' = "undefined"
                    /\ UNCHANGED stream
          /\ output' = Torn
    /\ UNCHANGED <<environment, packet, indexTable, dataBlock, blockPacketMap,
                   nbBlockRead, maxPacketSize, cursor, blockFile, mapFile, indexFile>>

Exit ==
    /\ pc = "exit"
    /\ pc' = "off"
    /\ output' \in IF stream = <<>> THEN {output} ELSE WriteOutcomes(output, stream)
    /\ ClearMemory
    /\ UNCHANGED <<environment, blockFile, mapFile, indexFile>>

-----------------------------------------------------------------------------
Reset == ResetNothing \/ ResetRemoveBlock \/ ResetRemoveIndex

Handle ==
    \/ SaveBlock \/ SaveMap \/ RestoreNext
    \/ IgnorePacket \/ BeginBlock \/ ContinueBlock
    \/ StorePacket \/ CheckPastPayload \/ DropCorruptBlock \/ KeepBlock \/ WriteBlock

Finish == CreateIndex \/ GenerateDataFile \/ Exit

Next ==
    \/ Start \/ Republish \/ Crash
    \/ Reset
    \/ \E p \in PacketsOf(onAir) : ReceivePacket(p)
    \/ Handle
    \/ Finish

Spec == Init /\ [][Next]_vars
=============================================================================
