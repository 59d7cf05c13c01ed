---------------------------- MODULE ReceiverSafety ----------------------------
(***************************************************************************)
(* What must hold of a receiver and of its output directory, whatever the  *)
(* network does and whenever the program is killed and started again.      *)
(***************************************************************************)
EXTENDS Receiver

FileOf(S) == [is : {"absent", "torn"}] \cup [is : {"whole"}, data : S]

Block == [blockNumber : BlockNumbers, checksum : [crc : Seq(Nat)],
          payloadSize : Nat, payload : Seq(Nat)]

Sizes == [number : 0 .. INVALID_BLOCK_NUMBER, offset : Nat]

\* The offsets in an index file are not part of its type, see IndexDescribesBlocks.
IsIndexTable(table) ==
    /\ table.nbItems \in 0 .. MAX_BLOCK_NUMBER
    /\ DOMAIN table.items = 0 .. table.nbItems - 1
    /\ \A i \in DOMAIN table.items : table.items[i].number \in 0 .. INVALID_BLOCK_NUMBER
    /\ table = [nbItems |-> table.nbItems, items |-> table.items]

(***************************************************************************)
(* Every variable has its type; a map file holds a map that was opened.    *)
(***************************************************************************)
TypeOK ==
    /\ onAir \in Publications /\ sessions \in 0 .. MaxSessions
    /\ pc \in {"off", "reset", "receive", "save", "savemap", "restore", "accept",
               "store", "check", "write", "index", "generate", "erase", "exit",
               "undefined"}
    /\ packet \in {NoPacket} \cup UNION {PacketsOf(file) : file \in Publications}
    /\ IsIndexTable(indexTable)
    /\ indexTable.items \in [DOMAIN indexTable.items -> Sizes]
    /\ dataBlock \in Block
    /\ IsMap(blockPacketMap)
    /\ nbBlockRead \in 0 .. MAX_BLOCK_NUMBER
    /\ maxPacketSize \in 0 .. ThrotData
    /\ cursor \in 0 .. MAX_BLOCK_NUMBER
    /\ stream \in Seq(Seq(Nat))
    /\ DOMAIN blockFile = BlockNumbers /\ DOMAIN mapFile = BlockNumbers
    /\ \A b \in BlockNumbers :
          /\ blockFile[b] \in FileOf(Block)
          /\ \/ mapFile[b] \in {Absent, Torn}
             \/ /\ mapFile[b] = Whole(mapFile[b].data)
                /\ IsMap(mapFile[b].data) /\ IsOpen(mapFile[b].data)
    /\ \/ indexFile \in {Absent, Torn}
       \/ indexFile = Whole(indexFile.data) /\ IsIndexTable(indexFile.data)
    /\ output \in FileOf(Seq(Seq(Nat)))

-----------------------------------------------------------------------------
(***************************************************************************)
(* What "marked it as completed" (receivefile.c:333) stands for: the block *)
(* file of a completed block is whole and holds that block of a published  *)
(* file, and the index table has its number and size.  Between the check   *)
(* of the checksum and generateDataFile lie any number of packets of other *)
(* blocks, switches and restored files.                                    *)
(***************************************************************************)
PublishedBlocks(b) == {file[b + 1] : file \in {f \in Publications : b < Len(f)}}

CompletedBlockIntact ==
    \A b \in Completed :
        /\ indexTable.items[b].number = b
        /\ ReadsVerified(blockFile[b])
        /\ blockFile[b].data.blockNumber = b
        /\ blockFile[b].data.payload \in PublishedBlocks(b)
        /\ indexTable.items[b].offset = Len(blockFile[b].data.payload)

(***************************************************************************)
(* The part of it that no disk can break: what is about to be written for  *)
(* a completed block is, in all its bytes and under its own number, that   *)
(* block of one published file, and the index table has its number and     *)
(* size.  A block is put together from packets, from what switches left of *)
(* it on disk and from maps that could not be removed and are stale, with  *)
(* packets of another publication let in at receivefile.c:211.             *)
(***************************************************************************)
CountedBlocksVerified ==
    /\ pc = "write" =>
          /\ dataBlock.blockNumber = packet.blockNumber
          /\ BlockImage(dataBlock).payload \in PublishedBlocks(packet.blockNumber)
    /\ \A b \in Completed :
          /\ indexTable.items[b].number = b
          /\ \E block \in PublishedBlocks(b) : indexTable.items[b].offset = Len(block)

(***************************************************************************)
(* nbBlockRead, which ends the reception when it reaches the number of     *)
(* blocks, counts every completed block exactly once, and the index file   *)
(* is only made when no block is missing.                                  *)
(***************************************************************************)
CountMatchesIndex ==
    /\ pc \notin {"generate", "erase", "exit", "undefined"} =>
          nbBlockRead = Cardinality(Completed)
    /\ pc = "index" => Completed = 0 .. indexTable.nbItems - 1

(***************************************************************************)
(* A map file stands for a block file that can be read back, of a block    *)
(* that is not in memory and not completed: restoreBlockFromMapFile finds  *)
(* both or none, and never takes up again a block whose file is final.     *)
(***************************************************************************)
MapHasStoredBlock ==
    \A b \in BlockNumbers :
        IsWhole(mapFile[b]) =>
            /\ IsWhole(blockFile[b]) /\ blockFile[b].data.blockNumber = b
            /\ ~ (Loaded /\ dataBlock.blockNumber = b)
            /\ b \notin Completed

(***************************************************************************)
(* The copy of a packet stays within the allocated payload, also into a    *)
(* block that was restored from a file cut at its payload size: the size   *)
(* the overflow check of receivefile.c:303-317 compares with is at most    *)
(* the size of the allocation, and it never wraps below zero when the last *)
(* packet shortens it.                                                     *)
(***************************************************************************)
CopyStaysInBuffer ==
    Loaded => /\ dataBlock.payloadSize \in 1 .. Len(dataBlock.payload)
              /\ pc = "store" => AdjustedSize \in 1 .. Len(dataBlock.payload)

(***************************************************************************)
(* No path leads to memory that was freed: readBlockFile never fails on a  *)
(* block that the receiver or generateDataFile goes on to use.             *)
(***************************************************************************)
DefinedBehaviour == pc # "undefined"

(***************************************************************************)
(* README.txt:18, "Check result file is the same as the input file": an    *)
(* output file the program has finished is one of the files published.     *)
(***************************************************************************)
OutputFaithful == IsWhole(output) => output.data \in Publications

(***************************************************************************)
(* The index file describes the blocks beside it: consecutive offsets, and *)
(* block files that are whole until resetOuputDir gets to them.            *)
(***************************************************************************)
IndexDescribesBlocks ==
    pc = "generate" /\ IsWhole(indexFile) =>
        LET items == indexFile.data.items
        IN  \A b \in DOMAIN items :
                /\ items[b].number = b /\ IsWhole(blockFile[b])
                /\ items[b].offset = IF b = 0 THEN 0
                                     ELSE items[b - 1].offset
                                          + Len(blockFile[b - 1].data.payload)

(***************************************************************************)
(* A completed block is final: nothing writes or removes its file again    *)
(* for as long as the session relies on it.                                *)
(***************************************************************************)
CompletedFrozen == [][\A b \in Completed : blockFile'[b] = blockFile[b]]_vars

-----------------------------------------------------------------------------
(***************************************************************************)
(* receivefile.c:109 and splitfile.c:41, "Reset previous output files" and *)
(* "Then remove every block files": the reset at the start of a session    *)
(* finds each of the block files it is about to remove.                    *)
(***************************************************************************)
ResetFindsBlocks ==
    pc = "reset" /\ IsWhole(indexFile) /\ cursor < indexFile.data.nbItems =>
        Exists(blockFile[indexFile.data.items[cursor].number])

(***************************************************************************)
(* receivefile.c:378-381 generates the input file from the block files and *)
(* then removes them: once every block has been received, the file or all  *)
(* of its blocks are on disk, also if the program is killed.               *)
(***************************************************************************)
NothingLost ==
    pc = "off" /\ IsWhole(indexFile) =>
        \/ IsWhole(output)
        \/ \A b \in DOMAIN indexFile.data.items : IsWhole(blockFile[b])

(***************************************************************************)
(* receivefile.c:194, "Check the packet as not already been retrieved": a  *)
(* packet is dropped for a duplicate only if its block is in memory and    *)
(* has its bytes in their place.  No map of another block, or of none, is  *)
(* asked, except what readMapFile left of a torn map file: as long as no   *)
(* block has begun after that, the words asked are uninitialised, and a    *)
(* block whose every packet they claim is never received.                  *)
(***************************************************************************)
DuplicatesAreHeld ==
    pc = "accept" /\ AlreadyReceived =>
        \/ /\ Loaded /\ dataBlock.blockNumber = packet.blockNumber
           /\ LET first == maxPacketSize * packet.packetNumber + 1
              IN  SubSeq(dataBlock.payload, first, first + Len(packet.payload) - 1)
                      = packet.payload
        \/ ~ Loaded /\ MapOutgrowsBuffer /\ \E b \in BlockNumbers : mapFile[b] = Torn

-----------------------------------------------------------------------------
(***************************************************************************)
(* With one publication on the air, a block and a map that belong together *)
(* are a state the reception can be resumed from: the map was made for     *)
(* this block, every packet it holds is in its place in the payload, and   *)
(* the payload size has been shortened exactly if the last packet is held. *)
(***************************************************************************)
Resumable(block, map) ==
    LET whole == onAir[block.blockNumber + 1]
    IN  /\ block.checksum = crc32c(whole)
        /\ map.packetTotal = NbThrotChunks(whole)
        /\ block.payloadSize = IF map.packetTotal - 1 \in Held(map)
                               THEN Len(whole) ELSE map.packetTotal * ThrotData
        /\ \A j \in Held(map) :
              SubSeq(block.payload, j * ThrotData + 1, j * ThrotData + Len(Chunk(whole, j)))
                  = Chunk(whole, j)

\* It holds of the block in memory and of every block waiting on disk, so that
\* no switch of blocks, exit or kill makes the receiver start from a lie.
EveryBlockResumable ==
    /\ Loaded /\ pc \notin {"store", "check"} => Resumable(dataBlock, blockPacketMap)
    /\ \A b \in BlockNumbers :
          IsWhole(mapFile[b]) => Resumable(blockFile[b].data, mapFile[b].data)

(***************************************************************************)
(* The receiver implements Reception: whatever the order in which packets, *)
(* switches of blocks, kills and restarts come, no packet of a block is    *)
(* forgotten except with the one block in memory when a session ends, no   *)
(* block is counted before all its packets are there, and nothing is       *)
(* delivered before every block has been verified.                         *)
(***************************************************************************)
InFinale == pc \in {"generate", "erase", "exit"}

HeldOf(b) ==
    IF Loaded /\ dataBlock.blockNumber = b THEN Held(blockPacketMap)
    ELSE IF IsWhole(mapFile[b]) THEN Held(mapFile[b].data) ELSE {}

TheFile == CHOOSE file \in Publications : Publications = {file}

R == INSTANCE Reception WITH
        PacketTotal <- [i \in 1 .. Len(TheFile) |-> NbThrotChunks(TheFile[i])],
        held <- [b \in 0 .. Len(TheFile) - 1 |-> HeldOf(b)],
        verified <- IF InFinale THEN 0 .. Len(TheFile) - 1 ELSE Completed,
        delivered <- IF IsWhole(output) THEN "yes"
                     ELSE IF Exists(output) THEN "begun" ELSE "no"

ImplementsReception == R!Spec
=============================================================================
